---- MODULE Spec2Model ----
(***************************************************************************)
(* Credential and token lifecycle of the authentication backend            *)
(* (Backend/src/modules/user/user.model.js and the auth service,           *)
(* controller and error middleware).                                       *)
(*                                                                         *)
(* Time is counted in units of 15 minutes (the shortest time-to-live of    *)
(* the program, the access token's).  A signed token is modelled by the    *)
(* payload that determines its string: kind (which secret signed it),      *)
(* subject id and issue time; two tokens of one kind issued for one user   *)
(* at the same time are the same string, as with jwt.sign.                 *)
(***************************************************************************)
EXTENDS Integers, Sequences, FiniteSets, TLC

VARIABLES users, now, clock, loginRun, failRun, resetLog, revoked,
          pending, overlapped, events

vars == <<users, now, clock, loginRun, failRun, resetLog, revoked,
          pending, overlapped, events>>

\* The requests in flight and what their interleavings have done so far;
\* the specifications that run every request to its end in one step leave
\* these alone.
raceVars == <<pending, overlapped, events>>

\* ------------------------------------------------------------------ bounds

\* Spec, the whole interface for one account: clock steps, successful
\* logins in a row and wrong-password logins in a row.
MaxTicks == 1
MaxLogins == 1
MaxFailures == 1

\* SpecAccounts: registration, verification and password reset.
AccountUsers == 2
AccountTicks == 1

\* SpecLockout: the failed-attempt counter and the lock.
LockoutTicks == 2
LockoutLogins == 1
LockoutFailures == 6

\* SpecSessions: the refresh-token list.
SessionTicks == 1
SessionLogins == 6
SessionFailures == 1

\* SpecActive, an account that is deactivated: clock steps, successful
\* logins in a row and wrong-password logins in a row.
ActiveTicks == 1
ActiveLogins == 1
ActiveFailures == 5

\* SpecPasswordRace, a login request in flight while the password is
\* changed: as for SpecRace below.
PasswordRaceTicks == 1
PasswordRaceLogins == 1
PasswordRaceFailures == 1

\* SpecErrors: every operation on one account, up to a lock.
ErrorTicks == 1
ErrorLogins == 1
ErrorFailures == 5

\* SpecRace, two login requests in flight at once: the clock steps, the
\* length the refresh-token list may have when a login reads it and the
\* counter up to which a wrong password is tried.
RaceTicks == 1
RaceLogins == 1
RaceFailures == 5

\* ------------------------------------------------------- program constants

AccessTTL == 1
RefreshTTL == 672
EmailTTL == 96
ResetTTL == 4
LockTime == 8
MaxAttempts == 5
MaxRefreshTokens == 5
MinPasswordLength == 8

\* Steps by which the clock advances: one unit, the lock time and the
\* lifetime of a refresh token.
TickSteps == {1, LockTime, RefreshTTL}

\* The step of the clock between the steps of requests in flight: long
\* enough to end a lock and to expire every stored token.
RaceTickSteps == {RefreshTTL}

\* The step of the clock in SpecErrors: past the end of a lock and the
\* lifetime of every token.
ErrorTickSteps == {RefreshTTL}

\* ------------------------------------------------------------------ inputs

Emails == {"a@b.com", "A@b.com", "c@d.com"}
Usernames == {"alice01", "bob02"}
Passwords == {"Secure1!x", "Passw0rd#"}
WeakPasswords == {"password"}
RegisterPasswords == {"Secure1!x", "password"}

\* The String setters of the schema (lowercase: true) on the inputs above.
Lower(s) == IF s = "A@b.com" THEN "a@b.com" ELSE s

\* Character classes of the passwords above, as the regular expressions of
\* validatePassword see them.
PasswordLength(p) == IF p = "password" THEN 8 ELSE 9
HasUpperCase(p) == p \in {"Secure1!x", "Passw0rd#"}
HasLowerCase(p) == p \in {"Secure1!x", "Passw0rd#", "password"}
HasNumber(p) == p \in {"Secure1!x", "Passw0rd#"}
HasSpecialChar(p) == p \in {"Secure1!x", "Passw0rd#"}

Null == -1

\* ------------------------------------------------------------------ tokens

NoToken == [kind |-> "none", sub |-> 0, iat |-> 0]
Garbage == [kind |-> "garbage", sub |-> 0, iat |-> 0]

TTL(kind) ==
    CASE kind = "access" -> AccessTTL
      [] kind = "refresh" -> RefreshTTL
      [] kind = "email" -> EmailTTL
      [] kind = "reset" -> ResetTTL
      [] OTHER -> 0

sign(kind, id, t) == [kind |-> kind, sub |-> id, iat |-> t]

\* Variant of jwt.verify that does not look at the expiry.
verifyIgnoreExpiration(token, kind, t) ==
    IF token.kind # kind THEN [error |-> "JsonWebTokenError", sub |-> 0]
    ELSE [error |-> "none", sub |-> token.sub]

\* jwt.verify(token, secret of kind) at time t.
verify(token, kind, t) ==
    IF token.kind # kind THEN [error |-> "JsonWebTokenError", sub |-> 0]
    ELSE IF t >= token.iat + TTL(kind) THEN [error |-> "TokenExpiredError", sub |-> 0]
    ELSE [error |-> "none", sub |-> token.sub]

\* -------------------------------------------------------------- user model

\* A password value as the store holds it: the text and whether it went
\* through bcrypt.hash.
Plain(p) == [hashed |-> FALSE, text |-> p]

bcryptHash(v) ==
    IF v.hashed THEN [hashed |-> TRUE, text |-> "hash-of-hash"]
    ELSE [hashed |-> TRUE, text |-> v.text]

bcryptCompare(candidate, stored) == stored.hashed /\ stored.text = candidate

\* userSchema.pre("save"): hashes the password when it was modified.
\* Variant of the pre-save hook that never hashes.
preSaveNoHash(u, passwordModified) == u

\* Variant of the pre-save hook without the isModified check.
preSaveAlways(u, passwordModified) == [u EXCEPT !.password = bcryptHash(@)]

preSave(u, passwordModified) ==
    IF passwordModified THEN [u EXCEPT !.password = bcryptHash(@)] ELSE u

\* A document as User.create builds it from the schema defaults.
NewUser(email, username, password) ==
    [email |-> Lower(email), username |-> Lower(username),
     password |-> Plain(password), role |-> "user",
     isEmailVerified |-> FALSE,
     emailVerificationToken |-> NoToken, emailVerificationExpires |-> Null,
     passwordResetToken |-> NoToken, passwordResetExpires |-> Null,
     refreshTokens |-> <<>>, lastLogin |-> Null,
     loginAttempts |-> 0, lockUntil |-> Null, isActive |-> TRUE]

isLocked(u, t) == u.lockUntil # Null /\ u.lockUntil > t

comparePassword(u, candidate) == bcryptCompare(candidate, u.password)

generateAccessToken(id, t) == sign("access", id, t)

generateRefreshToken(id, t) == sign("refresh", id, t)

generateEmailVerificationToken(u, id, t) ==
    [u EXCEPT !.emailVerificationToken = sign("email", id, t),
              !.emailVerificationExpires = t + EmailTTL]

generatePasswordResetToken(u, id, t) ==
    [u EXCEPT !.passwordResetToken = sign("reset", id, t),
              !.passwordResetExpires = t + ResetTTL]

\* Variant of incLoginAttempts that locks one attempt later.
incLoginAttemptsLockAtSix(u, t) ==
    IF u.lockUntil # Null /\ u.lockUntil < t
    THEN [u EXCEPT !.loginAttempts = 1, !.lockUntil = Null]
    ELSE IF u.loginAttempts + 1 > MaxAttempts /\ ~isLocked(u, t)
         THEN [u EXCEPT !.loginAttempts = @ + 1, !.lockUntil = t + LockTime]
         ELSE [u EXCEPT !.loginAttempts = @ + 1]

\* Variant of incLoginAttempts without the branch for a lock that has
\* run out.
incLoginAttemptsNoExpiredReset(u, t) ==
    IF u.loginAttempts + 1 >= MaxAttempts /\ ~isLocked(u, t)
    THEN [u EXCEPT !.loginAttempts = @ + 1, !.lockUntil = t + LockTime]
    ELSE [u EXCEPT !.loginAttempts = @ + 1]

incLoginAttempts(u, t) ==
    IF u.lockUntil # Null /\ u.lockUntil < t
    THEN [u EXCEPT !.loginAttempts = 1, !.lockUntil = Null]
    ELSE IF u.loginAttempts + 1 >= MaxAttempts /\ ~isLocked(u, t)
         THEN [u EXCEPT !.loginAttempts = @ + 1, !.lockUntil = t + LockTime]
         ELSE [u EXCEPT !.loginAttempts = @ + 1]

\* Variant of resetLoginAttempts that zeroes the counter only.
resetLoginAttemptsKeepLock(u) == [u EXCEPT !.loginAttempts = 0]

resetLoginAttempts(u) == [u EXCEPT !.loginAttempts = 0, !.lockUntil = Null]

\* Array.prototype.slice(-n)
LastN(s, n) == IF Len(s) > n THEN SubSeq(s, Len(s) - n + 1, Len(s)) ELSE s

\* Variants of storeRefreshToken used to test the statements below: one
\* without the capacity limit, one that keeps the oldest five entries.
storeRefreshTokenUnbounded(u, token, t) ==
    [u EXCEPT !.refreshTokens =
        Append(@, [token |-> token, expiresAt |-> t + RefreshTTL])]

storeRefreshTokenKeepOldest(u, token, t) ==
    LET pushed == Append(u.refreshTokens,
                         [token |-> token, expiresAt |-> t + RefreshTTL])
    IN [u EXCEPT !.refreshTokens =
            IF Len(pushed) > MaxRefreshTokens
            THEN SubSeq(pushed, 1, MaxRefreshTokens) ELSE pushed]

storeRefreshToken(u, token, t) ==
    LET pushed == Append(u.refreshTokens,
                         [token |-> token, expiresAt |-> t + RefreshTTL])
    IN [u EXCEPT !.refreshTokens =
            IF Len(pushed) > MaxRefreshTokens
            THEN LastN(pushed, MaxRefreshTokens) ELSE pushed]

\* Variant of removeRefreshToken that removes the first matching entry only.
removeRefreshTokenFirstOnly(u, token) ==
    LET list == u.refreshTokens
        hits == {i \in 1..Len(list) : list[i].token = token}
        first == CHOOSE i \in hits : \A j \in hits : i <= j
    IN IF hits = {} THEN u
       ELSE [u EXCEPT !.refreshTokens =
                SubSeq(list, 1, first - 1) \o SubSeq(list, first + 1, Len(list))]

removeRefreshToken(u, token) ==
    [u EXCEPT !.refreshTokens = SelectSeq(@, LAMBDA rt : rt.token # token)]

cleanExpiredTokens(u, t) ==
    [u EXCEPT !.refreshTokens = SelectSeq(@, LAMBDA rt : rt.expiresAt > t)]

\* Variant of toJSON.transform that forgets to delete refreshTokens.
toJSONKeepSessions(u, id) ==
    [id |-> id, email |-> u.email, username |-> u.username, role |-> u.role,
     isEmailVerified |-> u.isEmailVerified, isActive |-> u.isActive,
     lastLogin |-> u.lastLogin, loginAttempts |-> u.loginAttempts,
     lockUntil |-> u.lockUntil, refreshTokens |-> u.refreshTokens]

\* toJSON.transform: the fields of a document that are returned to a client.
toJSON(u, id) ==
    [id |-> id, email |-> u.email, username |-> u.username, role |-> u.role,
     isEmailVerified |-> u.isEmailVerified, isActive |-> u.isActive,
     lastLogin |-> u.lastLogin, loginAttempts |-> u.loginAttempts,
     lockUntil |-> u.lockUntil]

\* ----------------------------------------------------------- the store

Ids(db) == 1..Len(db)

\* User.findOne({ $or: [{ email }, { username }] }): the first document, in
\* insertion order, that matches; 0 when none does.  The query values go
\* through the schema's setters.  An undefined key is "".
findOne(db, email, username) ==
    LET hits == {i \in Ids(db) :
                    \/ (email # "" /\ db[i].email = Lower(email))
                    \/ (username # "" /\ db[i].username = Lower(username))}
    IN IF hits = {} THEN 0 ELSE CHOOSE i \in hits : \A j \in hits : i <= j

\* User.findById
findById(db, id) == IF id \in Ids(db) THEN id ELSE 0

\* Variant of duplicateKey for a store whose only unique index is the one
\* on username.
duplicateKeyUsernameOnly(db, doc) ==
    IF \E i \in Ids(db) : db[i].username = doc.username THEN "username" ELSE ""

\* The unique indexes on email and username: the field a new document
\* collides on, "" when it collides on none.
duplicateKey(db, doc) ==
    IF \E i \in Ids(db) : db[i].email = doc.email THEN "email"
    ELSE IF \E i \in Ids(db) : db[i].username = doc.username THEN "username"
    ELSE ""

\* ----------------------------------------------------------- validation

validateEmail(email) == email \in Emails

validatePassword(p) ==
    /\ p # ""
    /\ PasswordLength(p) >= MinPasswordLength
    /\ HasUpperCase(p) /\ HasLowerCase(p) /\ HasNumber(p) /\ HasSpecialChar(p)

validateUsername(n) == n \in Usernames

validateRegistrationInput(d) ==
    validateEmail(d.email) /\ validateUsername(d.username) /\ validatePassword(d.password)

validateLoginInput(c) == (c.email # "" \/ c.username # "") /\ c.password # ""

\* ------------------------------------------------------------ responses

\* The user object of a response that carries none.
NoUser == [id |-> 0]

\* What an operation hands back: the error class (or "OK"), its message,
\* the user it acted on (0: none) and the tokens in the returned data.
Out(op, uid, status, message, access, refresh, token) ==
    [op |-> op, uid |-> uid, status |-> status, message |-> message,
     accessToken |-> access, refreshToken |-> refresh, token |-> token,
     user |-> NoUser]

\* The response with the user object that the operation returns in it.
WithUser(out, user) == [out EXCEPT !.user = user]

Fail(op, uid, status, message) ==
    Out(op, uid, status, message, NoToken, NoToken, NoToken)

\* handleMongooseDuplicateKeyError, reached through enhancedErrorHandler
\* for an error with code 11000.
handleMongooseDuplicateKeyError(op, field) ==
    Fail(op, 0, "Conflict", IF field = "email" THEN "email already exists"
                            ELSE "username already exists")

\* ---------------------------------------------------------- auth service
\* Each operation maps the store, its input and the time of the call to
\* the store it leaves and the response it returns.

Ret(db, out) == [db |-> db, out |-> out]

\* Variant of register that hands the whole request body to User.create.
registerWholeBody(db, d, t) ==
    LET Given(body, path, default) ==
            IF path \in DOMAIN body THEN body[path] ELSE default IN
    IF ~validateRegistrationInput(d)
    THEN Ret(db, Fail("register", 0, "ValidationFailed", "Validation failed"))
    ELSE LET existingUser == findOne(db, d.email, d.username) IN
    IF existingUser # 0 /\ db[existingUser].email = d.email
    THEN Ret(db, Fail("register", 0, "Conflict", "Email already registered"))
    ELSE IF existingUser # 0 /\ db[existingUser].username = d.username
    THEN Ret(db, Fail("register", 0, "Conflict", "Username already taken"))
    ELSE LET doc == [NewUser(d.email, d.username, d.password) EXCEPT
                        !.role = Given(d, "role", @),
                        !.isEmailVerified = Given(d, "isEmailVerified", @),
                        !.isActive = Given(d, "isActive", @),
                        !.loginAttempts = Given(d, "loginAttempts", @),
                        !.lockUntil = Given(d, "lockUntil", @),
                        !.refreshTokens = Given(d, "refreshTokens", @)]
             field == duplicateKey(db, doc)
             id == Len(db) + 1
         IN IF field # ""
            THEN Ret(db, handleMongooseDuplicateKeyError("register", field))
            ELSE LET created == preSave(doc, TRUE)
                     user == preSave(generateEmailVerificationToken(created, id, t),
                                     FALSE)
                 IN Ret(Append(db, user),
                        WithUser(Out("register", id, "OK", "", NoToken, NoToken,
                                     user.emailVerificationToken),
                                 toJSON(user, id)))

register(db, d, t) ==
    IF ~validateRegistrationInput(d)
    THEN Ret(db, Fail("register", 0, "ValidationFailed", "Validation failed"))
    ELSE LET existingUser == findOne(db, d.email, d.username) IN
    IF existingUser # 0 /\ db[existingUser].email = d.email
    THEN Ret(db, Fail("register", 0, "Conflict", "Email already registered"))
    ELSE IF existingUser # 0 /\ db[existingUser].username = d.username
    THEN Ret(db, Fail("register", 0, "Conflict", "Username already taken"))
    ELSE LET doc == NewUser(d.email, d.username, d.password)
             field == duplicateKey(db, doc)
             id == Len(db) + 1
         IN IF field # ""
            THEN Ret(db, handleMongooseDuplicateKeyError("register", field))
            ELSE LET created == preSave(doc, TRUE)
                     user == preSave(generateEmailVerificationToken(created, id, t),
                                     FALSE)
                 IN Ret(Append(db, user),
                        WithUser(Out("register", id, "OK", "", NoToken, NoToken,
                                     user.emailVerificationToken),
                                 toJSON(user, id)))

\* Variant of login that compares the password before it looks at the lock.
loginPasswordFirst(db, c, t) ==
    LET id == findOne(db, c.email, c.username) IN
    IF ~validateLoginInput(c) \/ id = 0
    THEN [db |-> db, out |-> Fail("login", 0, "Unauthorized", "Invalid credentials")]
    ELSE IF ~comparePassword(db[id], c.password)
    THEN [db |-> [db EXCEPT ![id] = incLoginAttempts(@, t)],
          out |-> Fail("login", id, "Unauthorized", "Invalid credentials")]
    ELSE [db |-> [db EXCEPT ![id] =
                     cleanExpiredTokens(
                         storeRefreshToken([resetLoginAttempts(@) EXCEPT !.lastLogin = t],
                                           generateRefreshToken(id, t), t), t)],
          out |-> Out("login", id, "OK", "", generateAccessToken(id, t),
                      generateRefreshToken(id, t), NoToken)]

\* Variant of login that counts a wrong password on a locked account
\* before it refuses the request.
loginCountWhileLocked(db, c, t) ==
    LET id == findOne(db, c.email, c.username) IN
    IF id # 0 /\ validateLoginInput(c) /\ isLocked(db[id], t)
          /\ ~comparePassword(db[id], c.password)
    THEN [db |-> [db EXCEPT ![id] = incLoginAttempts(@, t)],
          out |-> Fail("login", id, "Forbidden", "Account is temporarily locked")]
    ELSE loginPasswordFirst(db, c, t)

\* Variant of login that looks at the active flag after the password.
loginActiveAfterPassword(db, c, t) ==
    IF ~validateLoginInput(c)
    THEN Ret(db, Fail("login", 0, "ValidationFailed", "Validation failed"))
    ELSE LET id == findOne(db, c.email, c.username) IN
    IF id = 0
    THEN Ret(db, Fail("login", 0, "Unauthorized", "Invalid credentials"))
    ELSE IF isLocked(db[id], t)
    THEN Ret(db, Fail("login", id, "Forbidden", "Account is temporarily locked"))
    ELSE IF ~comparePassword(db[id], c.password)
    THEN Ret([db EXCEPT ![id] = incLoginAttempts(@, t)],
             Fail("login", id, "Unauthorized", "Invalid credentials"))
    ELSE IF ~db[id].isActive
    THEN Ret(db, Fail("login", id, "Forbidden", "Account has been deactivated"))
    ELSE loginPasswordFirst(db, c, t)

login(db, c, t) ==
    IF ~validateLoginInput(c)
    THEN Ret(db, Fail("login", 0, "ValidationFailed", "Validation failed"))
    ELSE LET id == findOne(db, c.email, c.username) IN
    IF id = 0
    THEN Ret(db, Fail("login", 0, "Unauthorized", "Invalid credentials"))
    ELSE IF isLocked(db[id], t)
    THEN Ret(db, Fail("login", id, "Forbidden", "Account is temporarily locked"))
    ELSE IF ~db[id].isActive
    THEN Ret(db, Fail("login", id, "Forbidden", "Account has been deactivated"))
    ELSE IF ~comparePassword(db[id], c.password)
    THEN Ret([db EXCEPT ![id] = incLoginAttempts(@, t)],
             Fail("login", id, "Unauthorized", "Invalid credentials"))
    ELSE LET reset == [resetLoginAttempts(db[id]) EXCEPT !.lastLogin = t]
             accessToken == generateAccessToken(id, t)
             refreshToken == generateRefreshToken(id, t)
             stored == storeRefreshToken(preSave(reset, FALSE), refreshToken, t)
             user == cleanExpiredTokens(stored, t)
             \* the document in memory: updateOne did not touch its counter
             \* and lock
             inMemory == [user EXCEPT !.loginAttempts = db[id].loginAttempts,
                                      !.lockUntil = db[id].lockUntil]
         IN Ret([db EXCEPT ![id] = user],
                WithUser(Out("login", id, "OK", "", accessToken, refreshToken, NoToken),
                         toJSON(inMemory, id)))

\* Variant of refreshAccessToken that trusts the signature alone.
refreshAccessTokenSignatureOnly(db, refreshToken, t) ==
    LET decoded == verify(refreshToken, "refresh", t)
        id == findById(db, decoded.sub)
    IN IF refreshToken = NoToken \/ decoded.error # "none" \/ id = 0
       THEN [db |-> db, out |-> Fail("refresh", 0, "Unauthorized", "Invalid refresh token")]
       ELSE [db |-> db, out |-> Out("refresh", id, "OK", "", generateAccessToken(id, t),
                                    NoToken, NoToken)]

\* Variant of refreshAccessToken that rotates the refresh token: the one
\* presented is replaced in the list by a new one, which is returned.
refreshAccessTokenRotating(db, refreshToken, t) ==
    LET plain == refreshAccessTokenSignatureOnly(db, refreshToken, t)
        id == plain.out.uid
    IN IF plain.out.status # "OK" \/ ~\E i \in 1..Len(db[id].refreshTokens) :
                                        db[id].refreshTokens[i].token = refreshToken
       THEN [db |-> db, out |-> Fail("refresh", 0, "Unauthorized", "Invalid refresh token")]
       ELSE [db |-> [db EXCEPT ![id] =
                        storeRefreshToken(removeRefreshToken(@, refreshToken),
                                          generateRefreshToken(id, t), t)],
             out |-> Out("refresh", id, "OK", "", generateAccessToken(id, t),
                         generateRefreshToken(id, t), NoToken)]

refreshAccessToken(db, refreshToken, t) ==
    IF refreshToken = NoToken
    THEN Ret(db, Fail("refresh", 0, "Unauthorized", "Refresh token is required"))
    ELSE LET decoded == verify(refreshToken, "refresh", t) IN
    IF decoded.error # "none"
    THEN Ret(db, Fail("refresh", 0, "Unauthorized", "Invalid or expired refresh token"))
    ELSE LET id == findById(db, decoded.sub) IN
    IF id = 0
    THEN Ret(db, Fail("refresh", 0, "Unauthorized", "Invalid refresh token"))
    ELSE IF ~\E i \in 1..Len(db[id].refreshTokens) :
                db[id].refreshTokens[i].token = refreshToken
    THEN Ret(db, Fail("refresh", id, "Unauthorized", "Invalid refresh token"))
    ELSE Ret(db, Out("refresh", id, "OK", "", generateAccessToken(id, t),
                     NoToken, NoToken))

logout(db, userId, refreshToken) ==
    LET id == findById(db, userId) IN
    IF id = 0
    THEN Ret(db, Fail("logout", 0, "NotFound", "User not found"))
    ELSE IF refreshToken # NoToken
    THEN Ret([db EXCEPT ![id] = removeRefreshToken(@, refreshToken)],
             Out("logout", id, "OK", "Logged out successfully",
                 NoToken, NoToken, NoToken))
    ELSE Ret(db, Out("logout", id, "OK", "Logged out successfully",
                     NoToken, NoToken, NoToken))

\* Variant of verifyEmail without the already-verified check.
verifyEmailNoVerifiedCheck(db, token, t) ==
    LET decoded == verify(token, "email", t)
        id == findById(db, decoded.sub)
    IN IF token = NoToken \/ decoded.error # "none" \/ id = 0
       THEN [db |-> db, out |-> Fail("verifyEmail", 0, "BadRequest",
                                     "Invalid or expired verification token")]
       ELSE IF \/ db[id].emailVerificationToken # token
               \/ (db[id].emailVerificationExpires # Null
                   /\ db[id].emailVerificationExpires < t)
       THEN [db |-> db, out |-> Fail("verifyEmail", id, "BadRequest",
                                     "Invalid or expired verification token")]
       ELSE [db |-> [db EXCEPT ![id] = [@ EXCEPT !.isEmailVerified = TRUE,
                                                 !.emailVerificationToken = NoToken,
                                                 !.emailVerificationExpires = Null]],
             out |-> Out("verifyEmail", id, "OK", "Email verified successfully",
                         NoToken, NoToken, NoToken)]

verifyEmail(db, token, t) ==
    IF token = NoToken
    THEN Ret(db, Fail("verifyEmail", 0, "BadRequest", "Verification token is required"))
    ELSE LET decoded == verify(token, "email", t) IN
    IF decoded.error # "none"
    THEN Ret(db, Fail("verifyEmail", 0, "BadRequest",
                      "Invalid or expired verification token"))
    ELSE LET id == findById(db, decoded.sub) IN
    IF id = 0
    THEN Ret(db, Fail("verifyEmail", 0, "NotFound", "User not found"))
    ELSE IF db[id].isEmailVerified
    THEN Ret(db, Fail("verifyEmail", id, "BadRequest", "Email already verified"))
    ELSE IF \/ db[id].emailVerificationToken # token
            \/ (db[id].emailVerificationExpires # Null
                /\ db[id].emailVerificationExpires < t)
    THEN Ret(db, Fail("verifyEmail", id, "BadRequest",
                      "Invalid or expired verification token"))
    ELSE Ret([db EXCEPT ![id] = [@ EXCEPT !.isEmailVerified = TRUE,
                                          !.emailVerificationToken = NoToken,
                                          !.emailVerificationExpires = Null]],
             Out("verifyEmail", id, "OK", "Email verified successfully",
                 NoToken, NoToken, NoToken))

GenericResetMessage == "If the email exists, a reset link has been sent"

\* Variant of requestPasswordReset that keeps a reset token already
\* stored and hands out a second one next to it.
requestPasswordResetKeepFirst(db, email, t) ==
    LET id == findOne(db, email, "") IN
    IF ~validateEmail(email) \/ id = 0
    THEN [db |-> db, out |-> Out("requestPasswordReset", 0, "OK", GenericResetMessage,
                                 NoToken, NoToken, NoToken)]
    ELSE [db |-> IF db[id].passwordResetToken # NoToken THEN db
                 ELSE [db EXCEPT ![id] = generatePasswordResetToken(@, id, t)],
          out |-> Out("requestPasswordReset", id, "OK", GenericResetMessage,
                      NoToken, NoToken, sign("reset", id, t))]

requestPasswordReset(db, email, t) ==
    IF ~validateEmail(email)
    THEN Ret(db, Fail("requestPasswordReset", 0, "BadRequest",
                      "Please provide a valid email address"))
    ELSE LET id == findOne(db, email, "") IN
    IF id = 0
    THEN Ret(db, Out("requestPasswordReset", 0, "OK", GenericResetMessage,
                     NoToken, NoToken, NoToken))
    ELSE LET user == generatePasswordResetToken(db[id], id, t)
         IN Ret([db EXCEPT ![id] = preSave(user, FALSE)],
                Out("requestPasswordReset", id, "OK", GenericResetMessage,
                    NoToken, NoToken, user.passwordResetToken))

\* The schema's validator of the password path, run by save().
schemaPasswordValid(p) == PasswordLength(p) >= MinPasswordLength

resetPassword(db, token, newPassword, t) ==
    IF token = NoToken \/ newPassword = ""
    THEN Ret(db, Fail("resetPassword", 0, "BadRequest",
                      "Token and new password are required"))
    ELSE LET decoded == verify(token, "reset", t) IN
    IF decoded.error # "none"
    THEN Ret(db, Fail("resetPassword", 0, "BadRequest", "Invalid or expired reset token"))
    ELSE LET id == findById(db, decoded.sub) IN
    IF id = 0
    THEN Ret(db, Fail("resetPassword", 0, "NotFound", "User not found"))
    ELSE IF \/ db[id].passwordResetToken # token
            \/ (db[id].passwordResetExpires # Null /\ db[id].passwordResetExpires < t)
    THEN Ret(db, Fail("resetPassword", id, "BadRequest", "Invalid or expired reset token"))
    ELSE IF ~schemaPasswordValid(newPassword)
    THEN Ret(db, Fail("resetPassword", id, "ValidationFailed", "Validation failed"))
    ELSE LET user == [db[id] EXCEPT !.password = Plain(newPassword),
                                    !.passwordResetToken = NoToken,
                                    !.passwordResetExpires = Null,
                                    !.refreshTokens = <<>>]
         IN Ret([db EXCEPT ![id] = preSave(user, TRUE)],
                Out("resetPassword", id, "OK", "Password reset successful",
                    NoToken, NoToken, NoToken))

\* Variant of changePassword that leaves the refresh-token list alone.
changePasswordKeepSessions(db, userId, currentPassword, newPassword) ==
    LET id == findById(db, userId) IN
    IF id = 0 \/ ~comparePassword(db[IF id = 0 THEN 1 ELSE id], currentPassword)
    THEN [db |-> db, out |-> Fail("changePassword", id, "Unauthorized",
                                  "Current password is incorrect")]
    ELSE [db |-> [db EXCEPT ![id] = preSave([@ EXCEPT !.password = Plain(newPassword)], TRUE)],
          out |-> Out("changePassword", id, "OK", "Password changed successfully",
                      NoToken, NoToken, NoToken)]

\* Variant of changePassword that ends the sessions before it has verified
\* the current password.
changePasswordRevokeFirst(db, userId, currentPassword, newPassword) ==
    LET id == findById(db, userId) IN
    IF id = 0
    THEN Ret(db, Fail("changePassword", 0, "NotFound", "User not found"))
    ELSE LET cleared == [db EXCEPT ![id].refreshTokens = <<>>] IN
    IF ~comparePassword(db[id], currentPassword)
    THEN Ret(cleared, Fail("changePassword", id, "Unauthorized",
                           "Current password is incorrect"))
    ELSE IF ~schemaPasswordValid(newPassword)
    THEN Ret(db, Fail("changePassword", id, "ValidationFailed", "Validation failed"))
    ELSE Ret([cleared EXCEPT ![id] = preSave([@ EXCEPT !.password = Plain(newPassword)],
                                             TRUE)],
             Out("changePassword", id, "OK", "Password changed successfully",
                 NoToken, NoToken, NoToken))

changePassword(db, userId, currentPassword, newPassword) ==
    LET id == findById(db, userId) IN
    IF id = 0
    THEN Ret(db, Fail("changePassword", 0, "NotFound", "User not found"))
    ELSE IF ~comparePassword(db[id], currentPassword)
    THEN Ret(db, Fail("changePassword", id, "Unauthorized",
                      "Current password is incorrect"))
    ELSE IF ~schemaPasswordValid(newPassword)
    THEN Ret(db, Fail("changePassword", id, "ValidationFailed", "Validation failed"))
    ELSE LET user == [db[id] EXCEPT !.password = Plain(newPassword),
                                    !.refreshTokens = <<>>]
         IN Ret([db EXCEPT ![id] = preSave(user, TRUE)],
                Out("changePassword", id, "OK", "Password changed successfully",
                    NoToken, NoToken, NoToken))

\* ------------------------------------------------- login, step by step
\* login awaits the store and bcrypt several times; between two awaits
\* another request can run.  A request in flight is its position (pc), its
\* credentials, the user it found, the document it holds in memory and
\* whether its copy of the document's version is out of date (stale: an
\* array write by another request has reached the store since it read).

Idle == [pc |-> "idle"]

\* Two requests at a time.
RaceSlots == {1, 2}

\* findOne and the checks that follow it without an await: the response
\* when the request ends here, else the request now waiting for bcrypt.
loginRead(db, c, t) ==
    LET id == findOne(db, c.email, c.username) IN
    IF ~validateLoginInput(c)
    THEN [req |-> Idle, out |-> Fail("login", 0, "ValidationFailed", "Validation failed")]
    ELSE IF id = 0
    THEN [req |-> Idle, out |-> Fail("login", 0, "Unauthorized", "Invalid credentials")]
    ELSE IF isLocked(db[id], t)
    THEN [req |-> Idle,
          out |-> Fail("login", id, "Forbidden", "Account is temporarily locked")]
    ELSE IF ~db[id].isActive
    THEN [req |-> Idle,
          out |-> Fail("login", id, "Forbidden", "Account has been deactivated")]
    ELSE [req |-> [pc |-> "compare", c |-> c, id |-> id, doc |-> db[id],
                   stale |-> FALSE],
          out |-> Fail("login", id, "pending", "")]

\* Variant of incLoginAttemptsUpdate that never writes lockUntil.
incLoginAttemptsUpdateNoLock(stored, doc, t) ==
    IF doc.lockUntil # Null /\ doc.lockUntil < t
    THEN [stored EXCEPT !.loginAttempts = 1, !.lockUntil = Null]
    ELSE [stored EXCEPT !.loginAttempts = @ + 1]

\* The updateOne of incLoginAttempts: which update is sent is decided on
\* the document in memory, and the store applies it to the stored one.
incLoginAttemptsUpdate(stored, doc, t) ==
    IF doc.lockUntil # Null /\ doc.lockUntil < t
    THEN [stored EXCEPT !.loginAttempts = 1, !.lockUntil = Null]
    ELSE IF doc.loginAttempts + 1 >= MaxAttempts /\ ~isLocked(doc, t)
         THEN [stored EXCEPT !.loginAttempts = @ + 1, !.lockUntil = t + LockTime]
         ELSE [stored EXCEPT !.loginAttempts = @ + 1]

\* comparePassword failed: incLoginAttempts, then Unauthorized.
loginFail(db, req, t) ==
    Ret([db EXCEPT ![req.id] = incLoginAttemptsUpdate(@, req.doc, t)],
        Fail("login", req.id, "Unauthorized", "Invalid credentials"))

\* Variant of loginReset that leaves a lock in effect alone.
loginResetUnlessLocked(db, req, t) ==
    [db |-> IF isLocked(db[req.id], t) THEN [db EXCEPT ![req.id].lastLogin = t]
            ELSE [db EXCEPT ![req.id] = [resetLoginAttempts(@) EXCEPT !.lastLogin = t]],
     req |-> [req EXCEPT !.pc = "store", !.doc.lastLogin = t]]

\* comparePassword succeeded: the updateOne of resetLoginAttempts and the
\* save of lastLogin, which writes that path only.
loginReset(db, req, t) ==
    [db |-> [db EXCEPT ![req.id] = [resetLoginAttempts(@) EXCEPT !.lastLogin = t]],
     req |-> [req EXCEPT !.pc = "store", !.doc.lastLogin = t]]

\* storeRefreshToken: a push is saved as $push, which the store applies to
\* the stored list whatever its version; a list cut to its last five is
\* saved as a $set of the whole array, which fails with a VersionError
\* when the version in memory is out of date.  written: whether an array
\* write reached the store.
loginStore(db, req, t) ==
    LET entry == [token |-> generateRefreshToken(req.id, t), expiresAt |-> t + RefreshTTL]
        pushed == Append(req.doc.refreshTokens, entry)
    IN IF Len(pushed) > MaxRefreshTokens
       THEN IF req.stale
            THEN [db |-> db, req |-> Idle, written |-> FALSE,
                  out |-> Fail("login", req.id, "VersionError", "No matching document found")]
            ELSE [db |-> [db EXCEPT ![req.id].refreshTokens = LastN(pushed, MaxRefreshTokens)],
                  req |-> [req EXCEPT !.pc = "clean",
                                      !.doc.refreshTokens = LastN(pushed, MaxRefreshTokens)],
                  written |-> TRUE,
                  out |-> Fail("login", req.id, "pending", "")]
       ELSE [db |-> [db EXCEPT ![req.id].refreshTokens = Append(@, entry)],
             req |-> [req EXCEPT !.pc = "clean", !.doc.refreshTokens = pushed],
             written |-> TRUE,
             out |-> Fail("login", req.id, "pending", "")]

\* cleanExpiredTokens and the return: a filter that drops nothing leaves
\* the path unmodified and save() writes nothing; one that drops an entry
\* is saved as a $set of the whole array.  The tokens returned are those
\* signed after the save of lastLogin.
loginClean(db, req, t) ==
    LET kept == SelectSeq(req.doc.refreshTokens, LAMBDA rt : rt.expiresAt > t)
        issued == req.doc.refreshTokens[Len(req.doc.refreshTokens)].token
        ok == WithUser(Out("login", req.id, "OK", "",
                           sign("access", req.id, issued.iat), issued, NoToken),
                       toJSON([req.doc EXCEPT !.refreshTokens = kept], req.id))
    IN IF kept = req.doc.refreshTokens
       THEN [db |-> db, req |-> Idle, written |-> FALSE, out |-> ok]
       ELSE IF req.stale
       THEN [db |-> db, req |-> Idle, written |-> FALSE,
             out |-> Fail("login", req.id, "VersionError", "No matching document found")]
       ELSE [db |-> [db EXCEPT ![req.id].refreshTokens = kept],
             req |-> Idle, written |-> TRUE, out |-> ok]

\* --------------------------------------------- register, step by step
\* register awaits findOne, then User.create, then the save of the
\* verification token.

\* validateRegistrationInput, findOne and the two comparisons that follow
\* it: the response when the request ends here, else the request now
\* waiting for User.create.
registerRead(db, d, t) ==
    IF ~validateRegistrationInput(d)
    THEN [req |-> Idle, out |-> Fail("register", 0, "ValidationFailed", "Validation failed")]
    ELSE LET existingUser == findOne(db, d.email, d.username) IN
    IF existingUser # 0 /\ db[existingUser].email = d.email
    THEN [req |-> Idle, out |-> Fail("register", 0, "Conflict", "Email already registered")]
    ELSE IF existingUser # 0 /\ db[existingUser].username = d.username
    THEN [req |-> Idle, out |-> Fail("register", 0, "Conflict", "Username already taken")]
    ELSE [req |-> [pc |-> "create", d |-> d, id |-> 0],
          out |-> Fail("register", 0, "pending", "")]

\* Variant of registerCreate for a collection without unique indexes.
registerCreateNoIndex(db, req, t) ==
    [db |-> Append(db, preSave(NewUser(req.d.email, req.d.username, req.d.password), TRUE)),
     req |-> [req EXCEPT !.pc = "save", !.id = Len(db) + 1],
     out |-> Fail("register", Len(db) + 1, "pending", "")]

\* User.create: the pre-save hook, then the insert, which the unique
\* indexes refuse with a duplicate-key error that the error middleware
\* turns into Conflict.
registerCreate(db, req, t) ==
    LET doc == NewUser(req.d.email, req.d.username, req.d.password)
        field == duplicateKey(db, doc)
    IN IF field # ""
       THEN [db |-> db, req |-> Idle,
             out |-> handleMongooseDuplicateKeyError("register", field)]
       ELSE [db |-> Append(db, preSave(doc, TRUE)),
             req |-> [req EXCEPT !.pc = "save", !.id = Len(db) + 1],
             out |-> Fail("register", Len(db) + 1, "pending", "")]

\* generateEmailVerificationToken, the save of its two paths, and the
\* return.
registerSave(db, req, t) ==
    LET token == generateEmailVerificationToken(db[req.id], req.id, t)
        user == [db[req.id] EXCEPT
                    !.emailVerificationToken = token.emailVerificationToken,
                    !.emailVerificationExpires = token.emailVerificationExpires]
    IN [db |-> [db EXCEPT ![req.id] = user],
        req |-> Idle,
        out |-> WithUser(Out("register", req.id, "OK", "", NoToken, NoToken,
                             user.emailVerificationToken),
                         toJSON(user, req.id))]

getCurrentUser(db, userId) ==
    LET id == findById(db, userId) IN
    IF id = 0
    THEN Ret(db, Fail("getCurrentUser", 0, "NotFound", "User not found"))
    ELSE Ret(db, WithUser(Out("getCurrentUser", id, "OK", "", NoToken, NoToken, NoToken),
                          toJSON(db[id], id)))

\* ------------------------------------------------------------ the system
\* users: the store's collection, in insertion order (a user's id is its
\* position).  now: the clock.  A response is not kept: it is the `out` of
\* the operation applied to the state and the input of the call.
\* History kept for the statements below: clock, the times the clock has
\* shown so far (the times at which a token can have been signed);
\* loginRun[id], the refresh tokens returned by the successful logins of
\* id since its list was last reduced by something other than the capacity
\* limit; failRun[id], the number of wrong-password logins in the current
\* run that started at a zero counter; resetLog[id], the reset token that
\* resetPassword last consumed for id and whether the last reset step for
\* id was a request or a consumption; revoked[id], the number of entries
\* that the last password change of id removed from its list, while no
\* login of id has succeeded since (-1 otherwise).

Init ==
    /\ users = <<>>
    /\ now = 0
    /\ clock = {0}
    /\ loginRun = <<>>
    /\ failRun = <<>>
    /\ resetLog = <<>>
    /\ revoked = <<>>
    /\ pending = [s \in RaceSlots |-> Idle]
    /\ overlapped = FALSE
    /\ events = {}

\* The tokens a client can present: a token of any kind signed by this
\* service for a user at a time the clock has shown, a string that is no
\* token of this service, and none at all.
TokenKinds == {"refresh", "email", "reset"}

Signed(kinds) == {sign(k, id, t) : k \in kinds, id \in 1..Len(users), t \in clock}

Presentable == Signed(TokenKinds) \cup {Garbage, NoToken}

\* The tokens the requests of an endpoint are drawn from: the ones signed
\* with its own secret; any other is Garbage to it.
PresentableTo(kind) == Signed({kind}) \cup {Garbage, NoToken}

\* The registration forms submitted: a first identity, the same address in
\* another case with another handle, and another address with the same
\* handle.
RegistrationForms ==
    {[email |-> "a@b.com", username |-> "alice01"],
     [email |-> "A@b.com", username |-> "bob02"],
     [email |-> "c@d.com", username |-> "alice01"]}

Credentials(e, n, p) == [email |-> e, username |-> n, password |-> p]

\* Every action takes the caps of the specification that uses it.

Register(maxUsers, e, n, p) ==
    LET r == register(users, Credentials(e, n, p), now) IN
    /\ Len(r.db) <= maxUsers
    /\ users' = r.db
    /\ loginRun' = IF r.out.status = "OK" THEN Append(loginRun, <<>>) ELSE loginRun
    /\ failRun' = IF r.out.status = "OK" THEN Append(failRun, 0) ELSE failRun
    /\ resetLog' = IF r.out.status = "OK"
                   THEN Append(resetLog, [spent |-> NoToken, phase |-> "none"])
                   ELSE resetLog
    /\ revoked' = IF r.out.status = "OK" THEN Append(revoked, -1) ELSE revoked
    /\ UNCHANGED <<now, clock>>
    /\ UNCHANGED raceVars

\* The fields a registration request can carry next to its credentials:
\* the defaults, the ones of a verified administrator, and the ones of a
\* deactivated, locked account with a session.
ExtraFields ==
    {[role |-> "user", isEmailVerified |-> FALSE, isActive |-> TRUE,
      loginAttempts |-> 0, lockUntil |-> Null, refreshTokens |-> <<>>],
     [role |-> "admin", isEmailVerified |-> TRUE, isActive |-> TRUE,
      loginAttempts |-> 0, lockUntil |-> Null, refreshTokens |-> <<>>],
     [role |-> "moderator", isEmailVerified |-> FALSE, isActive |-> FALSE,
      loginAttempts |-> MaxAttempts, lockUntil |-> RefreshTTL,
      refreshTokens |-> <<[token |-> sign("refresh", 1, 0),
                           expiresAt |-> RefreshTTL]>>]}

\* A request body: the credentials and the fields x.
Body(e, n, p, x) ==
    [email |-> e, username |-> n, password |-> p, role |-> x.role,
     isEmailVerified |-> x.isEmailVerified, isActive |-> x.isActive,
     loginAttempts |-> x.loginAttempts, lockUntil |-> x.lockUntil,
     refreshTokens |-> x.refreshTokens]

\* register with a body that carries more than the credentials.
RegisterBody(maxUsers, d) ==
    LET r == register(users, d, now) IN
    /\ Len(r.db) <= maxUsers
    /\ users' = r.db
    /\ loginRun' = IF r.out.status = "OK" THEN Append(loginRun, <<>>) ELSE loginRun
    /\ failRun' = IF r.out.status = "OK" THEN Append(failRun, 0) ELSE failRun
    /\ resetLog' = IF r.out.status = "OK"
                   THEN Append(resetLog, [spent |-> NoToken, phase |-> "none"])
                   ELSE resetLog
    /\ revoked' = IF r.out.status = "OK" THEN Append(revoked, -1) ELSE revoked
    /\ UNCHANGED <<now, clock>>
    /\ UNCHANGED raceVars

\* A login of `id` with a password that does not match the stored one.
WrongPassword(db, id, p) == id # 0 /\ ~comparePassword(db[id], p)

RunStart(u, t) == u.loginAttempts = 0 /\ ~isLocked(u, t) /\ u.isActive

\* loginRun after the call: a login whose pruning step removed an entry
\* starts a new run.
LoginRunAfter(r, id) ==
    IF r.out.status # "OK" THEN loginRun
    ELSE IF Len(r.db[id].refreshTokens)
              < Len(storeRefreshToken(users[id], r.out.refreshToken, now).refreshTokens)
    THEN [loginRun EXCEPT ![id] = <<r.out.refreshToken>>]
    ELSE [loginRun EXCEPT ![id] = Append(@, r.out.refreshToken)]

\* failRun after a call with password p.
FailRunAfter(r, id, p) ==
    IF id = 0 THEN failRun
    ELSE IF r.out.status = "OK" THEN [failRun EXCEPT ![id] = 0]
    ELSE IF ~WrongPassword(users, id, p) THEN failRun
    ELSE IF RunStart(users[id], now) THEN [failRun EXCEPT ![id] = 1]
    ELSE IF failRun[id] \in 1..(MaxAttempts - 1) THEN [failRun EXCEPT ![id] = @ + 1]
    ELSE IF r.out.status = "Forbidden" THEN failRun
    ELSE [failRun EXCEPT ![id] = 0]

Login(maxLogins, maxFailures, e, n, p) ==
    LET r == login(users, Credentials(e, n, p), now)
        id == r.out.uid
    IN
    /\ r.out.status = "OK" =>
          /\ Len(loginRun[id]) < maxLogins
          /\ Len(users[id].refreshTokens) < maxLogins
    /\ WrongPassword(users, id, p) => users[id].loginAttempts < maxFailures
    /\ users' = r.db
    /\ loginRun' = LoginRunAfter(r, id)
    /\ failRun' = FailRunAfter(r, id, p)
    /\ revoked' = IF r.out.status = "OK" THEN [revoked EXCEPT ![id] = -1] ELSE revoked
    /\ UNCHANGED <<now, clock, resetLog>>
    /\ UNCHANGED raceVars

Refresh(token) ==
    LET r == refreshAccessToken(users, token, now) IN
    /\ users' = r.db
    /\ UNCHANGED <<now, clock, loginRun, failRun, resetLog, revoked>>
    /\ UNCHANGED raceVars

Logout(userId, token) ==
    LET r == logout(users, userId, token) IN
    /\ users' = r.db
    /\ loginRun' = IF r.out.status = "OK"
                   THEN [loginRun EXCEPT ![r.out.uid] = <<>>] ELSE loginRun
    /\ UNCHANGED <<now, clock, failRun, resetLog, revoked>>
    /\ UNCHANGED raceVars

VerifyEmail(token) ==
    LET r == verifyEmail(users, token, now) IN
    /\ users' = r.db
    /\ UNCHANGED <<now, clock, loginRun, failRun, resetLog, revoked>>
    /\ UNCHANGED raceVars

\* What the interleavings have done (events): a request in slot s whose
\* reset unset a lock that the store did not hold when the request read the
\* account is recorded as "clearing" while it is in flight, and as
\* "lockRaceWon" once it has returned its tokens.
Event(tag, s) == [tag |-> tag, slot |-> s, sub |-> 0, iat |-> 0]

\* A refresh token that a login pushed to the stored list although the
\* stored password was no longer the one the login had verified.
OldPasswordSession(token) ==
    [tag |-> "oldPasswordSession", slot |-> 0, sub |-> token.sub, iat |-> token.iat]

\* pending and events after a password change that returned r: clearing a
\* list that held entries is an array write, which makes the requests in
\* flight for the user stale, and it removes the sessions recorded.
PendingAfterChange(r) ==
    [x \in RaceSlots |->
        IF /\ r.out.status = "OK"
           /\ users[r.out.uid].refreshTokens # <<>>
           /\ pending[x].pc # "idle" /\ pending[x].id = r.out.uid
        THEN [pending[x] EXCEPT !.stale = TRUE]
        ELSE pending[x]]

EventsAfterChange(r) ==
    IF r.out.status # "OK" THEN events
    ELSE {e \in events : ~(e.tag = "oldPasswordSession" /\ e.sub = r.out.uid)}

EventsAfterReset(s, req) ==
    IF isLocked(users[req.id], now) THEN events \cup {Event("clearing", s)}
    ELSE events

\* events after the step of slot s that returned r.
EventsAfterStep(s, r) ==
    IF r.req.pc # "idle" THEN events
    ELSE (events \ {Event("clearing", s)})
             \cup (IF Event("clearing", s) \in events /\ r.out.status = "OK"
                   THEN {Event("lockRaceWon", 0)} ELSE {})

\* events after the storeRefreshToken step of slot s that returned r.
EventsAfterStore(s, req, r) ==
    EventsAfterStep(s, r)
        \cup (IF r.written /\ req.doc.password # users[req.id].password
              THEN {OldPasswordSession(generateRefreshToken(req.id, now))}
              ELSE {})


\* revoked after a password change that returned r.
RevokedAfter(r) ==
    IF r.out.status = "OK"
    THEN [revoked EXCEPT ![r.out.uid] = Len(users[r.out.uid].refreshTokens)]
    ELSE revoked

RequestPasswordReset(e) ==
    LET r == requestPasswordReset(users, e, now) IN
    /\ users' = r.db
    /\ resetLog' = IF r.out.uid # 0
                   THEN [resetLog EXCEPT ![r.out.uid].phase = "requested"]
                   ELSE resetLog
    /\ UNCHANGED <<now, clock, loginRun, failRun, revoked>>
    /\ UNCHANGED raceVars

ResetPassword(token, p) ==
    LET r == resetPassword(users, token, p, now) IN
    /\ users' = r.db
    /\ loginRun' = IF r.out.status = "OK"
                   THEN [loginRun EXCEPT ![r.out.uid] = <<>>] ELSE loginRun
    /\ resetLog' = IF r.out.status = "OK"
                   THEN [resetLog EXCEPT ![r.out.uid] =
                            [spent |-> token, phase |-> "consumed"]]
                   ELSE resetLog
    /\ revoked' = RevokedAfter(r)
    /\ pending' = PendingAfterChange(r)
    /\ events' = EventsAfterChange(r)
    /\ UNCHANGED <<now, clock, failRun, overlapped>>

ChangePassword(userId, cur, new) ==
    LET r == changePassword(users, userId, cur, new) IN
    /\ users' = r.db
    /\ loginRun' = IF r.out.status = "OK"
                   THEN [loginRun EXCEPT ![r.out.uid] = <<>>] ELSE loginRun
    /\ revoked' = RevokedAfter(r)
    /\ pending' = PendingAfterChange(r)
    /\ events' = EventsAfterChange(r)
    /\ UNCHANGED <<now, clock, failRun, resetLog, overlapped>>

GetCurrentUser(userId) ==
    LET r == getCurrentUser(users, userId) IN
    /\ users' = r.db
    /\ UNCHANGED <<now, clock, loginRun, failRun, resetLog, revoked>>
    /\ UNCHANGED raceVars

\* The steps of the login requests in flight.  A new request takes the
\* lowest free slot.
InFlight == {s \in RaceSlots : pending[s].pc # "idle"}

\* pending after slot s moved to req; an array write makes the other
\* requests for the same user stale.
PendingAfter(s, req, id, written) ==
    [x \in RaceSlots |->
        IF x = s THEN req
        ELSE IF written /\ pending[x].pc # "idle" /\ pending[x].id = id
        THEN [pending[x] EXCEPT !.stale = TRUE]
        ELSE pending[x]]

LoginRead(maxLogins, maxFailures, e, n, p) ==
    LET r == loginRead(users, Credentials(e, n, p), now)
        free == RaceSlots \ InFlight
        s == CHOOSE x \in free : \A y \in free : x <= y
    IN
    /\ free # {}
    /\ r.req.pc # "idle" =>
          IF comparePassword(r.req.doc, p)
          THEN Len(r.req.doc.refreshTokens) < maxLogins
          ELSE r.req.doc.loginAttempts < maxFailures
    /\ pending' = IF r.req.pc = "idle" THEN pending
                  ELSE [pending EXCEPT ![s] = r.req]
    /\ overlapped' = (overlapped \/ (r.req.pc # "idle" /\ InFlight # {}))
    /\ UNCHANGED <<users, now, clock, loginRun, failRun, resetLog, revoked, events>>

LoginFail(s) ==
    LET req == pending[s]
        r == loginFail(users, req, now)
    IN
    /\ req.pc = "compare"
    /\ ~comparePassword(req.doc, req.c.password)
    /\ users' = r.db
    /\ pending' = PendingAfter(s, Idle, req.id, FALSE)
    /\ UNCHANGED <<now, clock, loginRun, failRun, resetLog, revoked, overlapped, events>>

LoginReset(s) ==
    LET req == pending[s]
        r == loginReset(users, req, now)
    IN
    /\ req.pc = "compare"
    /\ comparePassword(req.doc, req.c.password)
    /\ users' = r.db
    /\ pending' = PendingAfter(s, r.req, req.id, FALSE)
    /\ events' = EventsAfterReset(s, req)
    /\ UNCHANGED <<now, clock, loginRun, failRun, resetLog, revoked, overlapped>>

LoginStore(s) ==
    LET req == pending[s]
        r == loginStore(users, req, now)
    IN
    /\ req.pc = "store"
    /\ users' = r.db
    /\ pending' = PendingAfter(s, r.req, req.id, r.written)
    /\ events' = EventsAfterStore(s, req, r)
    /\ UNCHANGED <<now, clock, loginRun, failRun, resetLog, revoked, overlapped>>

LoginClean(s) ==
    LET req == pending[s]
        r == loginClean(users, req, now)
    IN
    /\ req.pc = "clean"
    /\ users' = r.db
    /\ pending' = PendingAfter(s, r.req, req.id, r.written)
    /\ events' = EventsAfterStep(s, r)
    /\ UNCHANGED <<now, clock, loginRun, failRun, resetLog, revoked, overlapped>>

\* The steps of the register requests in flight.  A request whose form
\* collided with no stored user when it passed the pre-check is recorded as
\* "readFree" while it waits for User.create, and as "lostRace" when the
\* insert is then refused.
RegisterRead(e, n, p) ==
    LET d == Credentials(e, n, p)
        r == registerRead(users, d, now)
        free == RaceSlots \ InFlight
        s == CHOOSE x \in free : \A y \in free : x <= y
    IN
    /\ free # {}
    /\ pending' = IF r.req.pc = "idle" THEN pending
                  ELSE [pending EXCEPT ![s] = r.req]
    /\ overlapped' = (overlapped \/ (r.req.pc # "idle" /\ InFlight # {}))
    /\ events' = IF r.req.pc # "idle"
                    /\ duplicateKey(users, NewUser(e, n, p)) = ""
                 THEN events \cup {Event("readFree", s)} ELSE events
    /\ UNCHANGED <<users, now, clock, loginRun, failRun, resetLog, revoked>>

RegisterCreate(s) ==
    LET req == pending[s]
        r == registerCreate(users, req, now)
        created == r.req.pc # "idle"
    IN
    /\ req.pc = "create"
    /\ users' = r.db
    /\ pending' = [pending EXCEPT ![s] = r.req]
    /\ loginRun' = IF created THEN Append(loginRun, <<>>) ELSE loginRun
    /\ failRun' = IF created THEN Append(failRun, 0) ELSE failRun
    /\ resetLog' = IF created
                   THEN Append(resetLog, [spent |-> NoToken, phase |-> "none"])
                   ELSE resetLog
    /\ revoked' = IF created THEN Append(revoked, -1) ELSE revoked
    /\ events' = (events \ {Event("readFree", s)})
                     \cup (IF ~created /\ Event("readFree", s) \in events
                           THEN {Event("lostRace", 0)} ELSE {})
    /\ UNCHANGED <<now, clock, overlapped>>

RegisterSave(s) ==
    LET req == pending[s]
        r == registerSave(users, req, now)
    IN
    /\ req.pc = "save"
    /\ users' = r.db
    /\ pending' = [pending EXCEPT ![s] = r.req]
    /\ UNCHANGED <<now, clock, loginRun, failRun, resetLog, revoked, overlapped, events>>

\* The active flag of a user is cleared by an update of the store from
\* outside the authentication interface.
Deactivate(id) ==
    /\ id \in Ids(users)
    /\ users[id].isActive
    /\ users' = [users EXCEPT ![id].isActive = FALSE]
    /\ UNCHANGED <<now, clock, loginRun, failRun, resetLog, revoked>>
    /\ UNCHANGED raceVars

Tick(maxTicks, d) ==
    /\ Cardinality(clock) <= maxTicks
    /\ now' = now + d
    /\ clock' = clock \cup {now + d}
    /\ UNCHANGED <<users, loginRun, failRun, resetLog, revoked>>
    /\ UNCHANGED raceVars

\* Ids a request can name: the users and one id of no user.
RequestIds == 1..(Len(users) + 1)

\* The whole interface, for one account.
Next ==
    \/ \E f \in RegistrationForms, p \in RegisterPasswords :
           Register(1, f.email, f.username, p)
    \/ \E e \in Emails, p \in Passwords : Login(MaxLogins, MaxFailures, e, "", p)
    \/ \E n \in Usernames, p \in Passwords : Login(MaxLogins, MaxFailures, "", n, p)
    \/ \E t \in PresentableTo("refresh") : Refresh(t)
    \/ \E id \in RequestIds, t \in PresentableTo("refresh") : Logout(id, t)
    \/ \E t \in PresentableTo("email") : VerifyEmail(t)
    \/ \E e \in Emails : RequestPasswordReset(e)
    \/ \E t \in PresentableTo("reset"), p \in Passwords : ResetPassword(t, p)
    \/ \E id \in RequestIds, cur \in Passwords, new \in Passwords :
           ChangePassword(id, cur, new)
    \/ \E id \in RequestIds : GetCurrentUser(id)
    \/ \E d \in TickSteps : Tick(MaxTicks, d)

Spec == Init /\ [][Next]_vars

\* Registration, verification and password reset, for two users.
NextAccounts ==
    \/ \E f \in RegistrationForms, p \in RegisterPasswords :
           Register(AccountUsers, f.email, f.username, p)
    \/ \E t \in PresentableTo("email") : VerifyEmail(t)
    \/ \E e \in Emails : RequestPasswordReset(e)
    \/ \E t \in PresentableTo("reset"), p \in Passwords : ResetPassword(t, p)
    \/ \E d \in TickSteps : Tick(AccountTicks, d)

SpecAccounts == Init /\ [][NextAccounts]_vars

\* One account, its logins and the clock.
NextLockout ==
    \/ \E p \in RegisterPasswords : Register(1, "a@b.com", "alice01", p)
    \/ \E e \in Emails, p \in Passwords : Login(LockoutLogins, LockoutFailures, e, "", p)
    \/ \E d \in TickSteps : Tick(LockoutTicks, d)

SpecLockout == Init /\ [][NextLockout]_vars

\* One account and everything that touches its refresh-token list.
NextSessions ==
    \/ \E p \in RegisterPasswords : Register(1, "a@b.com", "alice01", p)
    \/ \E p \in Passwords : Login(SessionLogins, SessionFailures, "a@b.com", "", p)
    \/ \E t \in PresentableTo("refresh") : Refresh(t)
    \/ \E id \in RequestIds, t \in PresentableTo("refresh") : Logout(id, t)
    \/ \E e \in Emails : RequestPasswordReset(e)
    \/ \E t \in PresentableTo("reset"), p \in Passwords : ResetPassword(t, p)
    \/ \E id \in RequestIds, cur \in Passwords, new \in Passwords :
           ChangePassword(id, cur, new)
    \/ \E d \in TickSteps : Tick(SessionTicks, d)

SpecSessions == Init /\ [][NextSessions]_vars

\* One account and login requests that interleave at their awaits.
NextRace ==
    \/ \E p \in RegisterPasswords : Register(1, "a@b.com", "alice01", p)
    \/ \E p \in Passwords : LoginRead(RaceLogins, RaceFailures, "a@b.com", "", p)
    \/ \E s \in RaceSlots : LoginFail(s)
    \/ \E s \in RaceSlots : LoginReset(s)
    \/ \E s \in RaceSlots : LoginStore(s)
    \/ \E s \in RaceSlots : LoginClean(s)
    \/ \E d \in RaceTickSteps : Tick(RaceTicks, d)

SpecRace == Init /\ [][NextRace]_vars

\* Register requests that interleave at their awaits.
NextRegisterRace ==
    \/ \E f \in RegistrationForms, p \in RegisterPasswords :
           RegisterRead(f.email, f.username, p)
    \/ \E s \in RaceSlots : RegisterCreate(s)
    \/ \E s \in RaceSlots : RegisterSave(s)
    \/ \E d \in RaceTickSteps : Tick(RaceTicks, d)

SpecRegisterRace == Init /\ [][NextRegisterRace]_vars

\* One account that logs in, refreshes, asks for a password reset and is
\* deactivated.
NextActive ==
    \/ \E p \in RegisterPasswords : Register(1, "a@b.com", "alice01", p)
    \/ \E p \in Passwords : Login(ActiveLogins, ActiveFailures, "a@b.com", "", p)
    \/ \E t \in PresentableTo("refresh") : Refresh(t)
    \/ \E e \in Emails : RequestPasswordReset(e)
    \/ \E id \in RequestIds : Deactivate(id)
    \/ \E d \in TickSteps : Tick(ActiveTicks, d)

SpecActive == Init /\ [][NextActive]_vars

\* One account whose password is changed or reset while a login request
\* is in flight.
NextPasswordRace ==
    \/ \E p \in RegisterPasswords : Register(1, "a@b.com", "alice01", p)
    \/ \E p \in Passwords :
           /\ InFlight = {}
           /\ LoginRead(PasswordRaceLogins, PasswordRaceFailures, "a@b.com", "", p)
    \/ \E s \in RaceSlots : LoginFail(s)
    \/ \E s \in RaceSlots : LoginReset(s)
    \/ \E s \in RaceSlots : LoginStore(s)
    \/ \E s \in RaceSlots : LoginClean(s)
    \/ \E e \in Emails : RequestPasswordReset(e)
    \/ \E t \in PresentableTo("reset"), p \in Passwords : ResetPassword(t, p)
    \/ \E id \in RequestIds, cur \in Passwords, new \in Passwords :
           ChangePassword(id, cur, new)
    \/ \E d \in RaceTickSteps : Tick(PasswordRaceTicks, d)

SpecPasswordRace == Init /\ [][NextPasswordRace]_vars

\* One account, every operation on it, and enough failures to lock it.
NextErrors ==
    \/ \E p \in RegisterPasswords, x \in ExtraFields :
           RegisterBody(1, Body("a@b.com", "alice01", p, x))
    \/ \E p \in Passwords : Login(ErrorLogins, ErrorFailures, "a@b.com", "", p)
    \/ \E t \in PresentableTo("refresh") : Refresh(t)
    \/ \E id \in RequestIds, t \in PresentableTo("refresh") : Logout(id, t)
    \/ \E t \in PresentableTo("email") : VerifyEmail(t)
    \/ \E e \in Emails : RequestPasswordReset(e)
    \/ \E t \in PresentableTo("reset"), p \in Passwords : ResetPassword(t, p)
    \/ \E id \in RequestIds, cur \in Passwords, new \in Passwords :
           ChangePassword(id, cur, new)
    \/ \E d \in ErrorTickSteps : Tick(ErrorTicks, d)

SpecErrors == Init /\ [][NextErrors]_vars

\* ============================================================ statements

\* The token strings of a user's stored refresh-token list, in order.
TokensOf(u) == [i \in 1..Len(u.refreshTokens) |-> u.refreshTokens[i].token]

InList(u, token) == \E i \in 1..Len(u.refreshTokens) : u.refreshTokens[i].token = token

\* C1: in every reachable state each user's stored refresh-token list
\* holds at most five entries.
C1_RefreshListAtMostFive ==
    \A id \in Ids(users) : Len(users[id].refreshTokens) <= MaxRefreshTokens

\* A sixth login in a row has run and the list is full.
C1_Witness ==
    \E id \in Ids(users) :
        Len(loginRun[id]) >= 6 /\ Len(users[id].refreshTokens) = MaxRefreshTokens

\* C10: after six successful logins in a row for one user the stored list
\* is exactly the tokens of the last five of them, in issue order, so the
\* entry dropped is the first login's.
C10_SixLoginsKeepLastFive ==
    \A id \in Ids(users) :
        Len(loginRun[id]) >= 6 =>
            TokensOf(users[id]) = LastN(loginRun[id], MaxRefreshTokens)

\* Six logins in a row, the first at an earlier time than the second, so
\* that its token differs from the ones kept.
C10_Witness ==
    \E id \in Ids(users) :
        /\ Len(loginRun[id]) = 6
        /\ loginRun[id][1] # loginRun[id][2]
        /\ ~InList(users[id], loginRun[id][1])

\* The refresh tokens a request can carry, those signed for an id of no
\* user included.
RefreshInputs ==
    Presentable \cup {sign("refresh", Len(users) + 1, t) : t \in clock}

\* C4: refresh returns an access token only for a token that verifies
\* under the refresh secret, whose subject exists and that is an entry of
\* that user's stored list; a token that verifies and is not in the list
\* fails with Unauthorized.
C4_RefreshNeedsStoredToken ==
    \A token \in RefreshInputs :
        LET r == refreshAccessToken(users, token, now)
            decoded == verify(token, "refresh", now)
            stored == /\ decoded.error = "none"
                      /\ decoded.sub \in Ids(users)
                      /\ InList(users[decoded.sub], token)
        IN /\ r.out.accessToken # NoToken => stored
           /\ (decoded.error = "none" /\ ~stored) =>
                 r.out.status = "Unauthorized" /\ r.out.accessToken = NoToken
           /\ r.db = users

\* The token of the first of six logins in a row still verifies and is no
\* longer in the list: it was evicted.
C4_Witness ==
    \E id \in Ids(users) :
        /\ Len(loginRun[id]) = 6
        /\ verify(loginRun[id][1], "refresh", now).error = "none"
        /\ ~InList(users[id], loginRun[id][1])

LoginsOf(id, p) ==
    {Credentials(users[id].email, "", p), Credentials("", users[id].username, p)}

IssuesNoTokens(out) == out.accessToken = NoToken /\ out.refreshToken = NoToken

\* C2: from an unlocked, active account with a zero counter, each of five
\* wrong-password logins in a row returns Unauthorized; after each of the
\* first four the account is unlocked, the fifth sets lockUntil to its own
\* time plus two hours, and until then every further login is Forbidden.
C2_FiveFailuresLock ==
    \A id \in Ids(users) :
        LET u == users[id]
            inRun == RunStart(u, now) \/ failRun[id] \in 1..(MaxAttempts - 1)
            k == IF RunStart(u, now) THEN 0 ELSE failRun[id]
        IN
        /\ failRun[id] \in 1..(MaxAttempts - 1) =>
              ~isLocked(u, now) /\ u.lockUntil = Null /\ u.loginAttempts = failRun[id]
        /\ inRun =>
              \A p \in Passwords : \A c \in LoginsOf(id, p) :
                  WrongPassword(users, id, p) =>
                      LET r == login(users, c, now) IN
                      /\ r.out.status = "Unauthorized"
                      /\ IssuesNoTokens(r.out)
                      /\ IF k + 1 < MaxAttempts
                         THEN ~isLocked(r.db[id], now) /\ r.db[id].lockUntil = Null
                         ELSE r.db[id].lockUntil = now + LockTime
        /\ (failRun[id] = MaxAttempts /\ now < u.lockUntil) =>
              \A p \in Passwords : \A c \in LoginsOf(id, p) :
                  LET r == login(users, c, now) IN
                  r.out.status = "Forbidden" /\ r.db = users

\* Five wrong passwords in a row, the fifth at a time after the clock
\* moved, and the account locked since.
C2_Witness ==
    \E id \in Ids(users) :
        /\ failRun[id] = MaxAttempts
        /\ now > 0
        /\ users[id].lockUntil = now + LockTime
        /\ \E p \in Passwords :
               login(users, Credentials(users[id].email, "", p), now).out.status
                   = "Forbidden"

\* C3: while lockUntil is in the future login returns Forbidden for the
\* right and for a wrong password, issues no tokens and changes nothing;
\* once the time is past lockUntil, login with the right password succeeds.
C3_LockedRejectsEveryPassword ==
    \A id \in Ids(users) : \A p \in Passwords : \A c \in LoginsOf(id, p) :
        LET u == users[id]
            r == login(users, c, now)
        IN
        /\ (u.lockUntil # Null /\ u.lockUntil > now) =>
              r.out.status = "Forbidden" /\ IssuesNoTokens(r.out) /\ r.db = users
        /\ (u.lockUntil # Null /\ now > u.lockUntil /\ comparePassword(u, p)) =>
              /\ r.out.status = "OK"
              /\ r.out.accessToken # NoToken /\ r.out.refreshToken # NoToken
              /\ ~isLocked(r.db[id], now)

\* An account that was locked at an earlier time of the clock, where both
\* passwords were refused, and whose lock has run out now.
C3_Witness ==
    \E id \in Ids(users) : \E t \in clock :
        /\ users[id].lockUntil # Null
        /\ t < users[id].lockUntil /\ users[id].lockUntil < now
        /\ \A p \in Passwords :
               login(users, Credentials(users[id].email, "", p), t).out.status
                   = "Forbidden"
        /\ \E p \in Passwords :
               login(users, Credentials(users[id].email, "", p), now).out.status = "OK"

\* C6 as stated: once resetPassword has consumed a token for a user, every
\* later resetPassword with that token fails and leaves the store as it is.
C6_ResetTokenSingleUse ==
    \A id \in Ids(users) :
        resetLog[id].spent # NoToken =>
            \A q \in Passwords :
                LET r == resetPassword(users, resetLog[id].spent, q, now) IN
                r.out.status # "OK" /\ r.db = users

\* What forgotPassword sends to the client.
ClientView(out) == [status |-> out.status, message |-> out.message, token |-> out.token]

\* The store without the account of the given address.
Without(db, email) == SelectSeq(db, LAMBDA u : u.email # Lower(email))

\* C8 as stated: for every well-formed address the client gets the same
\* result from requestPasswordReset whether or not the account exists.
C8_ResetRequestHidesExistence ==
    \A e \in Emails :
        ClientView(requestPasswordReset(users, e, now).out)
            = ClientView(requestPasswordReset(Without(users, e), e, now).out)

\* C7: verifyEmail with the token register returned, within its 24 hours,
\* succeeds, sets the flag and clears the stored token and expiry; a
\* second call with that token fails with the already-verified error; and
\* no step clears a flag that is set.
C7_VerifyOnceThenAlreadyVerified ==
    /\ [](\A id \in Ids(users) : \A t \in clock :
            LET token == sign("email", id, t)
                r == verifyEmail(users, token, now)
                again == verifyEmail(r.db, token, now)
            IN
            /\ (/\ ~users[id].isEmailVerified
                /\ users[id].emailVerificationToken = token
                /\ verify(token, "email", now).error = "none") =>
                  /\ r.out.status = "OK"
                  /\ r.db[id].isEmailVerified
                  /\ r.db[id].emailVerificationToken = NoToken
                  /\ r.db[id].emailVerificationExpires = Null
                  /\ again.out.status = "BadRequest"
                  /\ again.out.message = "Email already verified"
                  /\ again.db = r.db
            /\ (users[id].isEmailVerified /\ verify(token, "email", now).error = "none") =>
                  /\ r.out.status = "BadRequest"
                  /\ r.out.message = "Email already verified"
                  /\ r.db = users)
    /\ [][\A id \in Ids(users) :
              users[id].isEmailVerified => users'[id].isEmailVerified]_vars

\* A verified user whose stored token is cleared, at a later time at which
\* the token still verifies and is refused as already verified.
C7_Witness ==
    \E id \in Ids(users) : \E t \in clock :
        /\ users[id].isEmailVerified
        /\ users[id].emailVerificationToken = NoToken
        /\ users[id].emailVerificationExpires = Null
        /\ t < now
        /\ verifyEmail(users, sign("email", id, t), now).out.message
               = "Email already verified"

\* C9: register with an address or a handle that an existing user has
\* fails with Conflict and leaves the store as it is; no two users share
\* an address and no two share a handle.
C9_DuplicateIdentityConflicts ==
    /\ \A e \in Emails, n \in Usernames :
           LET r == register(users, Credentials(e, n, "Secure1!x"), now) IN
           (\E i \in Ids(users) :
                users[i].email = Lower(e) \/ users[i].username = Lower(n)) =>
               r.out.status = "Conflict" /\ r.db = users
    /\ \A i, j \in Ids(users) :
           i # j => users[i].email # users[j].email
                    /\ users[i].username # users[j].username

\* Two users, and a form whose address differs from an existing one in
\* case only, refused by the unique index.
C9_Witness ==
    /\ Len(users) = 2
    /\ \E e \in Emails, n \in Usernames :
           /\ \A i \in Ids(users) : users[i].email # e
           /\ register(users, Credentials(e, n, "Secure1!x"), now).out.message
                  = "email already exists"

\* C11: a login with the right password on an unlocked, active account
\* sets the counter to 0, unsets lockUntil, sets lastLogin and returns an
\* access token and a refresh token, the refresh token being the last
\* entry of the stored list.
C11_LoginSuccessResetsAndIssues ==
    \A id \in Ids(users) : \A p \in Passwords : \A c \in LoginsOf(id, p) :
        LET u == users[id]
            r == login(users, c, now)
            list == r.db[id].refreshTokens
        IN (~isLocked(u, now) /\ u.isActive /\ comparePassword(u, p)) =>
              /\ r.out.status = "OK"
              /\ r.db[id].loginAttempts = 0
              /\ r.db[id].lockUntil = Null
              /\ r.db[id].lastLogin = now
              /\ verify(r.out.accessToken, "access", now) = [error |-> "none", sub |-> id]
              /\ verify(r.out.refreshToken, "refresh", now) = [error |-> "none", sub |-> id]
              /\ list # <<>>
              /\ list[Len(list)].token = r.out.refreshToken
              /\ list[Len(list)].expiresAt = now + RefreshTTL

\* An account with five failures and a lock that has run out, on which the
\* right password logs in.
C11_Witness ==
    \E id \in Ids(users) : \E p \in Passwords :
        /\ users[id].loginAttempts >= MaxAttempts
        /\ users[id].lockUntil # Null /\ users[id].lockUntil <= now
        /\ users[id].refreshTokens # <<>>
        /\ login(users, Credentials(users[id].email, "", p), now).out.status = "OK"

\* The positions of a list whose entry is not the given token.
KeptPositions(list, token) == {i \in 1..Len(list) : list[i].token # token}

\* The entries of list at the positions kept, in the order of the list.
KeptEntries(list, token) ==
    LET kept == KeptPositions(list, token)
    IN [j \in 1..Cardinality(kept) |->
           list[CHOOSE i \in kept : Cardinality({m \in kept : m <= i}) = j]]

\* C12: logout removes from the user's list exactly the entries equal to
\* the token, keeps the others in order and changes nothing else; with a
\* token that is absent or not supplied it succeeds and changes nothing, a
\* second logout with the same token changes nothing more, and for an id
\* of no user it fails with NotFound.
C12_LogoutRemovesExactlyTheToken ==
    \A userId \in RequestIds : \A token \in RefreshInputs :
        LET r == logout(users, userId, token) IN
        IF userId \notin Ids(users)
        THEN r.out.status = "NotFound" /\ r.db = users
        ELSE /\ r.out.status = "OK"
             /\ r.db = [users EXCEPT ![userId].refreshTokens =
                           KeptEntries(users[userId].refreshTokens, token)]
             /\ (token = NoToken \/ ~InList(users[userId], token)) => r.db = users
             /\ logout(r.db, userId, token).db = r.db
             /\ logout(r.db, userId, token).out.status = "OK"

\* A list that holds the token twice and another token after it.
C12_Witness ==
    \E id \in Ids(users) : \E token \in RefreshInputs :
        LET list == users[id].refreshTokens
            r == logout(users, id, token)
        IN /\ Cardinality({i \in 1..Len(list) : list[i].token = token}) >= 2
           /\ list[Len(list)].token # token
           /\ Len(r.db[id].refreshTokens) = Len(list) - 2

\* The passwords a request can carry.
AnyPasswords == Passwords \cup WeakPasswords

\* C13: when register, resetPassword or changePassword succeeds, the
\* password it stores is the hash of the plaintext supplied, not the
\* plaintext, and comparePassword with that plaintext succeeds; no stored
\* password is a plaintext.
C13_StoredPasswordIsHash ==
    /\ \A id \in Ids(users) :
           /\ users[id].password.hashed
           /\ \E p \in AnyPasswords : comparePassword(users[id], p)
    /\ \A p \in AnyPasswords :
           LET StoredOk(r) ==
                   r.out.status = "OK" =>
                       /\ r.db[r.out.uid].password = bcryptHash(Plain(p))
                       /\ r.db[r.out.uid].password # Plain(p)
                       /\ comparePassword(r.db[r.out.uid], p)
                       /\ \A q \in AnyPasswords \ {p} : ~comparePassword(r.db[r.out.uid], q)
           IN /\ \A f \in RegistrationForms :
                     StoredOk(register(users, Credentials(f.email, f.username, p), now))
              /\ \A token \in PresentableTo("reset") :
                     StoredOk(resetPassword(users, token, p, now))
              /\ \A id \in RequestIds : \A cur \in AnyPasswords :
                     StoredOk(changePassword(users, id, cur, p))

\* A user whose password was replaced after registration, by a reset or a
\* change, and compares equal to the new plaintext only.
C13_Witness ==
    \E id \in Ids(users) :
        /\ revoked[id] >= 0
        /\ comparePassword(users[id], "Passw0rd#")
        /\ ~comparePassword(users[id], "Secure1!x")
        /\ changePassword(users, id, "Passw0rd#", "Secure1!x").out.status = "OK"

\* The fields of a user record that no response may carry.
SecretFields ==
    {"password", "refreshTokens", "emailVerificationToken",
     "emailVerificationExpires", "passwordResetToken", "passwordResetExpires"}

Sanitized(out) ==
    out.status = "OK" =>
        /\ out.user # NoUser
        /\ out.user.id = out.uid
        /\ DOMAIN out.user \cap SecretFields = {}

\* C14: the user object that register, login and getCurrentUser return
\* carries none of the password hash, the refresh-token list, the
\* verification and reset tokens and their expiries, whatever the record
\* holds.
C14_ReturnedUserHasNoSecrets ==
    /\ \A f \in RegistrationForms, p \in RegisterPasswords :
           Sanitized(register(users, Credentials(f.email, f.username, p), now).out)
    /\ \A e \in Emails, p \in Passwords :
           Sanitized(login(users, Credentials(e, "", p), now).out)
    /\ \A n \in Usernames, p \in Passwords :
           Sanitized(login(users, Credentials("", n, p), now).out)
    /\ \A id \in RequestIds : Sanitized(getCurrentUser(users, id).out)

\* A record that holds every secret at once, returned by getCurrentUser
\* and by a login.
C14_Witness ==
    \E id \in Ids(users) : \E p \in Passwords :
        /\ users[id].refreshTokens # <<>>
        /\ users[id].emailVerificationToken # NoToken
        /\ users[id].passwordResetToken # NoToken
        /\ getCurrentUser(users, id).out.user.email = users[id].email
        /\ login(users, Credentials(users[id].email, "", p), now).out.user.id = id

\* The outcome of an operation as the client sees it.
Outcome(out) == [status |-> out.status, message |-> out.message]

\* C15 as stated: refresh, verifyEmail and resetPassword report a token
\* whose time-to-live has elapsed with an outcome other than the one they
\* report for a string that is no token of their secret.
C15_ExpiredDistinctFromInvalid ==
    \A id \in Ids(users) : \A t \in clock : \A p \in Passwords :
        /\ verify(sign("refresh", id, t), "refresh", now).error = "TokenExpiredError" =>
              Outcome(refreshAccessToken(users, sign("refresh", id, t), now).out)
                  # Outcome(refreshAccessToken(users, Garbage, now).out)
        /\ verify(sign("email", id, t), "email", now).error = "TokenExpiredError" =>
              Outcome(verifyEmail(users, sign("email", id, t), now).out)
                  # Outcome(verifyEmail(users, Garbage, now).out)
        /\ verify(sign("reset", id, t), "reset", now).error = "TokenExpiredError" =>
              Outcome(resetPassword(users, sign("reset", id, t), p, now).out)
                  # Outcome(resetPassword(users, Garbage, p, now).out)

\* The four kinds of token, and the token of each kind that the user
\* model issues for user id at time t.
AllKinds == {"access", "refresh", "email", "reset"}

Issue(kind, id, t) ==
    CASE kind = "access" -> generateAccessToken(id, t)
      [] kind = "refresh" -> generateRefreshToken(id, t)
      [] kind = "email" ->
            generateEmailVerificationToken(users[id], id, t).emailVerificationToken
      [] kind = "reset" ->
            generatePasswordResetToken(users[id], id, t).passwordResetToken

C17_StoredPasswordsAreStrong ==
    /\ \A id \in Ids(users) :
           \E p \in AnyPasswords : comparePassword(users[id], p) /\ validatePassword(p)
    /\ \A p \in AnyPasswords :
           ~validatePassword(p) =>
               LET Rejected(r) == r.out.status # "OK" /\ r.db = users IN
               /\ \A f \in RegistrationForms :
                      Rejected(register(users, Credentials(f.email, f.username, p), now))
               /\ \A token \in PresentableTo("reset") :
                      Rejected(resetPassword(users, token, p, now))
               /\ \A id \in RequestIds : \A cur \in AnyPasswords :
                      Rejected(changePassword(users, id, cur, p))

\* C18: a login refused because the account is locked leaves the counter,
\* lockUntil, the refresh-token list and lastLogin as they are, and no
\* step changes lockUntil while the lock is in effect: the lock ends when
\* the failure that set it said.
C18_RefusedLoginChangesNothing ==
    /\ [](\A id \in Ids(users) : \A p \in Passwords : \A c \in LoginsOf(id, p) :
            LET u == users[id]
                r == login(users, c, now)
            IN isLocked(u, now) =>
                  /\ r.out.status = "Forbidden"
                  /\ r.db[id].loginAttempts = u.loginAttempts
                  /\ r.db[id].lockUntil = u.lockUntil
                  /\ r.db[id].refreshTokens = u.refreshTokens
                  /\ r.db[id].lastLogin = u.lastLogin)
    /\ [][\A id \in Ids(users) :
              (isLocked(users[id], now) /\ id \in Ids(users')) =>
                  /\ users'[id].lockUntil = users[id].lockUntil
                  /\ users'[id].loginAttempts = users[id].loginAttempts]_vars

\* An account locked by a fifth failure some time ago, with a session and
\* a last login on record, on which both passwords are refused.
C18_Witness ==
    \E id \in Ids(users) :
        /\ failRun[id] = MaxAttempts
        /\ users[id].lockUntil - LockTime < now /\ now < users[id].lockUntil
        /\ users[id].refreshTokens # <<>>
        /\ \A p \in Passwords :
               login(users, Credentials("", users[id].username, p), now).out.status
                   = "Forbidden"

\* C19: a wrong-password login on an account whose lockUntil is set and
\* strictly in the past sets the counter to 1 and unsets lockUntil,
\* whatever the counter was, without locking; from a counter of k with no
\* lock, k of 1 to 4, the next wrong password makes it k + 1, and locks the
\* account for two hours exactly when that is the fifth.
C19_ExpiredLockRestartsCount ==
    \A id \in Ids(users) : \A p \in Passwords : \A c \in LoginsOf(id, p) :
        LET u == users[id]
            r == login(users, c, now)
        IN WrongPassword(users, id, p) =>
              /\ (u.lockUntil # Null /\ u.lockUntil < now) =>
                    /\ r.out.status = "Unauthorized"
                    /\ r.db[id].loginAttempts = 1
                    /\ r.db[id].lockUntil = Null
                    /\ ~isLocked(r.db[id], now)
              /\ (u.lockUntil = Null /\ u.loginAttempts \in 1..(MaxAttempts - 1)) =>
                    /\ r.out.status = "Unauthorized"
                    /\ r.db[id].loginAttempts = u.loginAttempts + 1
                    /\ r.db[id].lockUntil =
                           IF u.loginAttempts + 1 = MaxAttempts
                           THEN now + LockTime ELSE Null

\* An account locked again by the fifth wrong password counted from the
\* one that found the first lock over: its counter is five although the
\* failures did not start from a counter of 0.
C19_Witness ==
    \E id \in Ids(users) :
        /\ users[id].loginAttempts = MaxAttempts
        /\ failRun[id] = 0
        /\ users[id].lockUntil = now + LockTime
        /\ now > LockTime

\* C20 as stated: in every reachable state, those reached by interleaved
\* login requests included, a counter of five or more implies that
\* lockUntil is set.
C20_CounterFiveImpliesLock ==
    \A id \in Ids(users) :
        users[id].loginAttempts >= MaxAttempts => users[id].lockUntil # Null

\* C20, amended: while no two login requests have been in flight at once,
\* a counter of five or more implies that lockUntil is set; and under any
\* interleaving the update of a wrong-password login that read a counter
\* of four or more on an account without a lock adds one to the stored
\* counter and writes lockUntil in the same step.
C20_LockWrittenWithTheIncrement ==
    /\ [](~overlapped =>
             \A id \in Ids(users) :
                 users[id].loginAttempts >= MaxAttempts => users[id].lockUntil # Null)
    /\ [][\A s \in RaceSlots :
              LET req == pending[s] IN
              (/\ req.pc = "compare"
               /\ pending'[s].pc = "idle"
               /\ ~comparePassword(req.doc, req.c.password)
               /\ req.doc.loginAttempts + 1 >= MaxAttempts
               /\ req.doc.lockUntil = Null) =>
                  /\ users'[req.id].loginAttempts = users[req.id].loginAttempts + 1
                  /\ users'[req.id].lockUntil = now + LockTime]_vars

\* Requests that ran one after another, each in its steps, and locked the
\* account with the fifth failure.
C20_Witness ==
    /\ ~overlapped
    /\ InFlight = {}
    /\ \E id \in Ids(users) :
           /\ users[id].loginAttempts = MaxAttempts
           /\ users[id].lockUntil = now + LockTime

\* C21: a login request that passed the lock check when it read the
\* account is not refused as locked afterwards, whatever lock other
\* requests have written since: with a wrong password it is counted and
\* returns Unauthorized, with the right one its reset zeroes the stored
\* counter and unsets the stored lockUntil; so two requests that both read
\* before the lock was written get past the threshold between them.
C21_InFlightLoginIgnoresLaterLock ==
    [][\A s \in RaceSlots :
          LET req == pending[s] IN
          /\ (req.pc = "compare" /\ pending'[s].pc = "store") =>
                /\ users'[req.id].loginAttempts = 0
                /\ users'[req.id].lockUntil = Null
          /\ (req.pc = "compare" /\ pending'[s].pc = "idle") =>
                /\ loginFail(users, req, now).out.status = "Unauthorized"
                /\ users'[req.id].loginAttempts = users[req.id].loginAttempts + 1
                      \/ users'[req.id].loginAttempts = 1]_vars

\* Two requests read the account at a counter of four; the one with the
\* wrong password locked it, the one with the right password then unset
\* that lock and returned its tokens: the account is open again.
C21_Witness ==
    /\ Event("lockRaceWon", 0) \in events
    /\ InFlight = {}
    /\ \E id \in Ids(users) :
           /\ users[id].loginAttempts = 0
           /\ users[id].lockUntil = Null
           /\ users[id].refreshTokens # <<>>

\* The forms of two users collide: same address or same handle as stored.
Collides(db, d) ==
    \E i \in Ids(db) : db[i].email = Lower(d.email) \/ db[i].username = Lower(d.username)

\* C22: under any interleaving of register requests no two users share an
\* address or a handle; the insert of a request whose address or handle a
\* stored user has by then, although none had when the request passed the
\* pre-check, creates nothing and fails with Conflict, and the insert of
\* one that collides with nobody creates exactly one user.
C22_OneOfTwoRegistersWins ==
    /\ [](\A i, j \in Ids(users) :
            i # j => users[i].email # users[j].email
                     /\ users[i].username # users[j].username)
    /\ [][\A s \in RaceSlots :
              LET req == pending[s]
                  r == registerCreate(users, req, now)
              IN (req.pc = "create" /\ pending'[s] # req) =>
                    IF Collides(users, req.d)
                    THEN r.out.status = "Conflict" /\ users' = users
                         /\ pending'[s].pc = "idle"
                    ELSE Len(users') = Len(users) + 1
                         /\ pending'[s].pc = "save"]_vars

\* Two requests with the same address passed the pre-check on a store
\* that held neither; one created the user, the other was refused by the
\* index.
C22_Witness ==
    /\ Event("lostRace", 0) \in events
    /\ InFlight = {}
    /\ Len(users) >= 1

\* C23: login checks, in this order, that the user exists, that the
\* account is not locked, that it is active and that the password matches:
\* on an inactive account that is not locked it returns Forbidden
\* (deactivated) for the right and for a wrong password, changes nothing
\* and issues no tokens; on an inactive account that is locked it reports
\* the lock.
C23_InactiveRefusedBeforePassword ==
    \A id \in Ids(users) : \A p \in Passwords : \A c \in LoginsOf(id, p) :
        LET u == users[id]
            r == login(users, c, now)
        IN ~u.isActive =>
              /\ r.out.status = "Forbidden"
              /\ IssuesNoTokens(r.out)
              /\ r.db = users
              /\ r.out.message = IF isLocked(u, now)
                                 THEN "Account is temporarily locked"
                                 ELSE "Account has been deactivated"

\* An inactive account with failures on record and no lock in effect, on
\* which the right and a wrong password are both refused.
C23_Witness ==
    \E id \in Ids(users) :
        /\ ~users[id].isActive
        /\ ~isLocked(users[id], now)
        /\ users[id].loginAttempts \in 1..(MaxAttempts - 1)
        /\ \A p \in Passwords :
               login(users, Credentials(users[id].email, "", p), now).out.message
                   = "Account has been deactivated"

\* C24: a refresh that succeeds returns an access token for the user and
\* nothing else, and leaves the store as it is: the list keeps its entries
\* in their order and no other field changes, so the same refresh token
\* succeeds again, at once and a quarter of an hour later while it has not
\* expired.
C24_RefreshDoesNotRotate ==
    \A token \in RefreshInputs :
        LET r == refreshAccessToken(users, token, now) IN
        r.out.status = "OK" =>
            /\ verify(r.out.accessToken, "access", now).sub = r.out.uid
            /\ r.out.accessToken = generateAccessToken(token.sub, now)
            /\ r.out.refreshToken = NoToken
            /\ r.out.token = NoToken
            /\ r.out.user = NoUser
            /\ r.db = users
            /\ \A d \in {0, AccessTTL} :
                   verify(token, "refresh", now + d).error = "none" =>
                       refreshAccessToken(r.db, token, now + d).out.status = "OK"

\* A list of several entries, one of them issued at an earlier time and
\* accepted by refresh now.
C24_Witness ==
    \E id \in Ids(users) : \E i \in 1..Len(users[id].refreshTokens) :
        LET token == users[id].refreshTokens[i].token IN
        /\ Len(users[id].refreshTokens) >= 2
        /\ token.iat < now
        /\ refreshAccessToken(users, token, now).out.status = "OK"
        /\ refreshAccessToken(users, token, now).out.accessToken.iat = now

\* The reset token and expiry of every user of a store.
ResetSecrets(db) ==
    [i \in Ids(db) |-> <<db[i].passwordResetToken, db[i].passwordResetExpires>>]

\* C25 as stated: requestPasswordReset stores a reset token and expiry
\* when the address is that of an active account; when the account is
\* inactive or no account has the address, no user's reset token or expiry
\* changes.
C25_ResetRequestOnlyForActive ==
    \A e \in Emails :
        LET r == requestPasswordReset(users, e, now)
            id == findOne(users, e, "")
        IN IF id # 0 /\ users[id].isActive
           THEN /\ r.db[id].passwordResetToken = sign("reset", id, now)
                /\ r.db[id].passwordResetExpires = now + ResetTTL
           ELSE ResetSecrets(r.db) = ResetSecrets(users)

\* C26: a user has one outstanding reset token at most.  When a user holds
\* the token t1 of an earlier request and a new request yields a different
\* token t2, t2 replaces t1 in the store; resetPassword with t1 then fails
\* and leaves the store, the password with it, as it is, and resetPassword
\* with t2, which has not expired, succeeds and sets the new password.
C26_OnlyLatestResetTokenWorks ==
    \A id \in Ids(users) : \A p \in Passwords :
        LET t1 == users[id].passwordResetToken
            second == requestPasswordReset(users, users[id].email, now)
            t2 == second.out.token
            old == resetPassword(second.db, t1, p, now)
            new == resetPassword(second.db, t2, p, now)
        IN (t1 # NoToken /\ t2 # t1) =>
              /\ second.db[id].passwordResetToken = t2
              /\ second.db[id].passwordResetExpires = now + ResetTTL
              /\ old.out.status = "BadRequest"
              /\ old.db = second.db
              /\ new.out.status = "OK"
              /\ comparePassword(new.db[id], p)
              /\ new.db[id].passwordResetToken = NoToken

\* A user who holds the token of a request made a quarter of an hour ago,
\* which still verifies, and who has not used it.
C26_Witness ==
    \E id \in Ids(users) :
        LET t1 == users[id].passwordResetToken IN
        /\ resetLog[id].phase = "requested"
        /\ t1 # NoToken
        /\ t1.iat < now
        /\ verify(t1, "reset", now).error = "none"
        /\ requestPasswordReset(users, users[id].email, now).out.token # t1

\* C27 as stated: the pruning step of a login never fails the login; when
\* its write to the store fails, the request still returns the user, the
\* access token and the refresh token.
C27_PruningFailureSwallowed ==
    \A s \in RaceSlots :
        pending[s].pc = "clean" =>
            LET r == loginClean(users, pending[s], now) IN
            /\ r.out.status = "OK"
            /\ r.out.user # NoUser
            /\ r.out.accessToken # NoToken
            /\ r.out.refreshToken # NoToken

\* C28 as stated: under any interleaving of a login with a resetPassword
\* or changePassword for the same user, once no request is in flight the
\* stored list holds no refresh token that a login pushed after the
\* password it had verified was replaced.
C28_NoSessionOfOldPassword ==
    InFlight = {} =>
        \A e \in events :
            e.tag = "oldPasswordSession" =>
                ~InList(users[e.sub], sign("refresh", e.sub, e.iat))

\* C29 as stated: in every reachable state no login and no refresh issues
\* an access token or a refresh token for a user whose active flag is
\* false, a user deactivated while a refresh token of theirs is stored
\* included.
C29_NoTokensForInactive ==
    \A id \in Ids(users) :
        ~users[id].isActive =>
            /\ \A p \in Passwords : \A c \in LoginsOf(id, p) :
                   IssuesNoTokens(login(users, c, now).out)
            /\ \A token \in RefreshInputs :
                   LET r == refreshAccessToken(users, token, now) IN
                   token.sub = id =>
                       r.out.status # "OK" /\ IssuesNoTokens(r.out)

\* C30 as stated: on an account whose lockUntil is set and not in the
\* future, the instant at which the time equals lockUntil included, a
\* wrong-password login sets the counter to 1 and unsets lockUntil, and
\* starts no new lock.
C30_EndedLockNeverRelocks ==
    \A id \in Ids(users) : \A p \in Passwords : \A c \in LoginsOf(id, p) :
        LET u == users[id]
            r == login(users, c, now)
        IN (/\ WrongPassword(users, id, p)
            /\ u.isActive
            /\ u.lockUntil # Null
            /\ ~(u.lockUntil > now)) =>
              /\ r.db[id].loginAttempts = 1
              /\ r.db[id].lockUntil = Null
              /\ ~isLocked(r.db[id], now)

\* The requests of every endpoint, the malformed ones included.
LoginInputs ==
    {Credentials(e, n, p) : e \in Emails \cup {""}, n \in Usernames \cup {""},
                            p \in AnyPasswords \cup {""}}

RegisterInputs ==
    {Credentials(e, n, p) : e \in Emails \cup {""}, n \in Usernames \cup {""},
                            p \in AnyPasswords}

\* db differs from the store at most in the counter and lockUntil of id.
OnlyLockoutStateChanged(db, id) ==
    db = [users EXCEPT ![id] = [@ EXCEPT !.loginAttempts = db[id].loginAttempts,
                                         !.lockUntil = db[id].lockUntil]]

\* C31: a request that returns an error leaves every user record as it
\* was, except a login refused for its password, which changes nothing but
\* the failed-attempt counter and lockUntil of the account it named.
C31_ErrorsChangeNothing ==
    /\ \A d \in RegisterInputs :
           LET r == register(users, d, now) IN r.out.status # "OK" => r.db = users
    /\ \A t \in Presentable :
           /\ LET r == refreshAccessToken(users, t, now)
              IN r.out.status # "OK" => r.db = users
           /\ LET r == verifyEmail(users, t, now)
              IN r.out.status # "OK" => r.db = users
           /\ \A p \in AnyPasswords \cup {""} :
                  LET r == resetPassword(users, t, p, now)
                  IN r.out.status # "OK" => r.db = users
           /\ \A id \in RequestIds :
                  LET r == logout(users, id, t)
                  IN r.out.status # "OK" => r.db = users
    /\ \A e \in Emails \cup {""} :
           LET r == requestPasswordReset(users, e, now)
           IN r.out.status # "OK" => r.db = users
    /\ \A id \in RequestIds :
           /\ getCurrentUser(users, id).db = users
           /\ \A cur \in AnyPasswords, new \in AnyPasswords :
                  LET r == changePassword(users, id, cur, new)
                  IN r.out.status # "OK" => r.db = users
    /\ \A c \in LoginInputs :
           LET r == login(users, c, now)
               id == r.out.uid
           IN r.out.status # "OK" =>
                 IF id # 0 /\ r.out.status = "Unauthorized"
                 THEN /\ WrongPassword(users, id, c.password)
                      /\ OnlyLockoutStateChanged(r.db, id)
                 ELSE r.db = users

\* An account with a session, a stored reset token and an unverified
\* address, one step of the clock later: a changePassword with a wrong
\* current password, a verifyEmail, a resetPassword and a refresh with
\* tokens signed now, which are not the stored ones, are all refused, and
\* a login with a wrong password is refused and counted.
C31_Witness ==
    \E id \in Ids(users) : \E p \in Passwords :
        /\ users[id].refreshTokens # <<>>
        /\ users[id].passwordResetToken \notin {NoToken, sign("reset", id, now)}
        /\ users[id].emailVerificationToken \notin {NoToken, sign("email", id, now)}
        /\ ~InList(users[id], sign("refresh", id, now))
        /\ WrongPassword(users, id, p)
        /\ changePassword(users, id, p, "Passw0rd#").out.status = "Unauthorized"
        /\ verifyEmail(users, sign("email", id, now), now).out.status = "BadRequest"
        /\ resetPassword(users, sign("reset", id, now), p, now).out.status = "BadRequest"
        /\ refreshAccessToken(users, sign("refresh", id, now), now).out.status
               = "Unauthorized"
        /\ LET r == login(users, Credentials(users[id].email, "", p), now)
           IN r.out.status = "Unauthorized"
              /\ r.db[id].loginAttempts = users[id].loginAttempts + 1

\* The passwords that comparePassword accepts for a stored document.
Accepts(u) == {p \in AnyPasswords : comparePassword(u, p)}

\* The password of every user of the store is what it is in db.
PasswordsKept(db) == \A id \in Ids(users) : db[id].password = users[id].password

\* The step stores a new password p for id: a register, a resetPassword
\* or a changePassword that succeeds with p.
SetsPassword(id, p) ==
    \/ /\ id \notin Ids(users)
       /\ \E d \in RegisterInputs :
              LET r == register(users, d, now)
              IN d.password = p /\ r.out.status = "OK" /\ r.out.uid = id /\ r.db = users'
    \/ \E t \in Presentable :
           LET r == resetPassword(users, t, p, now)
           IN r.out.status = "OK" /\ r.out.uid = id /\ r.db = users'
    \/ \E cur \in AnyPasswords :
           LET r == changePassword(users, id, cur, p)
           IN r.out.status = "OK" /\ r.db = users'

\* C32: login, logout, refresh, verifyEmail and requestPasswordReset leave
\* every stored password as it is; a stored password changes only in a
\* step of register, resetPassword or changePassword that succeeds, and
\* then to the hash of the password supplied; so every account accepts
\* exactly one password, the one set last, and login succeeds with it and
\* with no other on an account that is active and not locked.
C32_OnlyPasswordOperationsSetIt ==
    /\ [](/\ \A c \in LoginInputs : PasswordsKept(login(users, c, now).db)
          /\ \A t \in Presentable :
                 /\ PasswordsKept(refreshAccessToken(users, t, now).db)
                 /\ PasswordsKept(verifyEmail(users, t, now).db)
                 /\ \A id \in RequestIds : PasswordsKept(logout(users, id, t).db)
          /\ \A e \in Emails \cup {""} :
                 PasswordsKept(requestPasswordReset(users, e, now).db)
          /\ \A id \in Ids(users) :
                 /\ Cardinality(Accepts(users[id])) = 1
                 /\ (users[id].isActive /\ ~isLocked(users[id], now)) =>
                        \A p \in AnyPasswords : \A c \in LoginsOf(id, p) :
                            login(users, c, now).out.status = "OK"
                                <=> p \in Accepts(users[id]))
    /\ [][\A id \in Ids(users') :
              (id \notin Ids(users) \/ users'[id].password # users[id].password) =>
                  \E p \in AnyPasswords :
                      SetsPassword(id, p) /\ Accepts(users'[id]) = {p}]_vars

\* An account that accepts a password other than the two it can have been
\* registered with, and that has since logged in with it, asked for a
\* password reset and verified its address.
C32_Witness ==
    \E id \in Ids(users) :
        /\ Accepts(users[id]) = {"Passw0rd#"}
        /\ users[id].lastLogin # Null
        /\ users[id].refreshTokens # <<>>
        /\ users[id].passwordResetToken # NoToken
        /\ users[id].isEmailVerified
        /\ login(users, Credentials(users[id].email, "", "Passw0rd#"), now).out.status
               = "OK"

\* A document with every default of the schema that the claim names.
Fresh(u) ==
    /\ u.role = "user"
    /\ ~u.isEmailVerified
    /\ u.isActive
    /\ u.loginAttempts = 0
    /\ u.lockUntil = Null
    /\ u.refreshTokens = <<>>

\* C33: a register that succeeds stores a user with role "user", an
\* unverified address, the active flag set, a zero counter, no lockUntil
\* and no refresh token, whatever role, flags, counter, lock or tokens its
\* request body carries: it stores what the same credentials alone would
\* store, and every user that a step adds to the store is such a user.
C33_RegisterIgnoresExtraFields ==
    /\ [](\A e \in Emails, n \in Usernames, p \in AnyPasswords, x \in ExtraFields :
            LET r == register(users, Body(e, n, p, x), now)
            IN r.out.status = "OK" =>
                  /\ Fresh(r.db[r.out.uid])
                  /\ r.db = register(users, Credentials(e, n, p), now).db
                  /\ r.out.user.role = "user")
    /\ [][\A id \in Ids(users') \ Ids(users) : Fresh(users'[id])]_vars

\* The store right after a registration whose body asked for the role of
\* an administrator and a verified address.
C33_Witness ==
    \E p \in RegisterPasswords, t \in clock, x \in ExtraFields :
        LET r == register(<<>>, Body("a@b.com", "alice01", p, x), t)
        IN /\ x.role = "admin" /\ x.isEmailVerified
           /\ r.out.status = "OK"
           /\ users = r.db
           /\ now = t

====
